---- MODULE Spec2Model ----
(***************************************************************************)
(* Verification model of McPUFF (McPUFF_program.py).                       *)
(*                                                                         *)
(* Part I  : the fission-yield reducer Reaction.GEF_FY_for_TALYS and the   *)
(*           part of Reaction.FY_results that builds its argument.         *)
(*           Specification SpecReducer.                                    *)
(* Part II : the campaign Reaction.__init__ with its baseline thread, its  *)
(*           worker pools and the trial executors.  Specification Spec.    *)
(*                                                                         *)
(* Numbers that numpy keeps as floats are kept exact here: a yield is the  *)
(* pair <<count, denominator>>, a mean is the pair <<sum, n>> and a        *)
(* standard deviation (ddof = 1) is the pair                               *)
(* <<n*sum(x^2) - sum(x)^2, n*(n-1)>> of its variance.                     *)
(***************************************************************************)
EXTENDS Integers, Sequences, FiniteSets, TLC

VARIABLES
    \* ---- Part I: reducer ------------------------------------------------
    lmdData,        \* rows read from the ".lmd" file (usecols 2,3,4,5,18,19,22)
    A_compound,     \* compound mass number handed to the reducer
    FY,             \* the array object FY_results builds and hands over
    rpc,            \* position of the caller: "read" | "loaded" | "called1" | "called2"
    result1,        \* outcome of the first call of GEF_FY_for_TALYS
    result2,        \* outcome of the second call on the same array object
    \* ---- Part II: campaign ----------------------------------------------
    program_flag,   \* prog_flag argument of Reaction.__init__
    dist_flag,      \* dist_flag argument
    with_TALYS,     \* with_TALYS argument
    number_of_randoms,            \* number_of_randoms argument
    dict_unpert_param_name_val,   \* the keys of the dictionary, in insertion order
    cpu_count,      \* what os.cpu_count() returns
    PATH,           \* the executables found on the PATH
    pc,             \* position of the main thread in Reaction.__init__
    reaction,       \* the fields of the Reaction object (self)
    unperturbed_thread,           \* the Custom_Thread object
    parameter_task, \* futures of perturbed_calculations_single_parameter
    trial,          \* calls of the three trial executors, by key
    pkl,            \* the object handed to pickle.dump: <<>> or <<the object>>
    \* ---- Part III: sampler and perturber ---------------------------------
    param_name,     \* name of the GEF parameter
    distribution_flag,            \* distribution the two runs use
    unpert_param_val,             \* <<nominal of run 1, nominal of run 2>>
    rand_num,       \* the magnitude handed to both runs: <<>> or <<number>>
    pert_param_val, \* <<value returned to run 1, value returned to run 2>>
    ppc,            \* "none" | "constructed" | "sampled" | "perturbed" | "exited"
    \* ---- Part IV: loader ------------------------------------------------
    PKL_path,       \* the pickle directory: file name -> directory entry
    MPD,            \* the fields of the McPUFF_Perturbed_Data object (self)
    scandir,        \* the entries os.scandir has still to hand out
    lpc,            \* "none" | "idle" | "scanning" | "loaded" | "exited"
    \* ---- Part V: GEF working directories --------------------------------
    GEF_working_dir,              \* directory name -> names of its entries
    worker,         \* the calls of the trial executors that use them, by key
    TALYS_working_dir,            \* names of the TALYS folders of the trials
    TALYS_ff_file_path,           \* names of the files in the GEF ".ff" library
    With_TALYS_flag \* With_TALYS_flag argument of the trial executors

rvars == <<lmdData, A_compound, FY, rpc, result1, result2>>

cvars == <<program_flag, dist_flag, with_TALYS, number_of_randoms,
           dict_unpert_param_name_val, cpu_count, PATH, pc, reaction,
           unperturbed_thread, parameter_task, trial, pkl>>

pvars == <<param_name, distribution_flag, unpert_param_val, rand_num, pert_param_val, ppc>>

lvars == <<PKL_path, MPD, scandir, lpc>>

tvars == <<TALYS_working_dir, TALYS_ff_file_path, With_TALYS_flag>>

wvars == <<GEF_working_dir, worker, tvars>>

vars == <<rvars, cvars, pvars, lvars, wvars>>

\* Atomic number of the target, as handed to Reaction.__init__.
CampaignTarget == 3

\* The fields of a Reaction object as the constructor sets them in lines
\* 208-222 and 242 (None is "None", an empty dict is "{}", an optional array
\* is <<>> or <<a>>; the dictionary is the sequence of its keys).
NewReaction ==
    [distribution_flag          |-> dist_flag,
     With_TALYS_flag            |-> with_TALYS,
     program_flag               |-> program_flag,
     dictionary_unpert_param_name_val |-> dict_unpert_param_name_val,
     list_of_Mod_Param_objects  |-> <<>>,
     list_of_TMC_Objects        |-> <<>>,
     unperturbed_FY             |-> <<>>,
     unperturbed_ignored_events |-> <<>>,
     unperturbed_TALYS_results  |-> "None",
     unperturbed_GEF_results    |-> "None",
     reaction_info              |-> [Z_target    |-> CampaignTarget,
                                     A_compound  |-> A_compound,
                                     num_of_rand |-> number_of_randoms]]

\* Custom_Thread.__init__
NewCustomThread ==
    [state                      |-> "initial",
     unperturbed_FY             |-> <<>>,
     unperturbed_ignored_events |-> <<>>,
     unperturbed_GEF_results    |-> "{}",
     unperturbed_TALYS_results  |-> "{}"]

\* No campaign is run while the reducer is examined on its own.
NoCampaign ==
    /\ program_flag = "none"
    /\ dist_flag = "none"
    /\ with_TALYS = FALSE
    /\ number_of_randoms = 0
    /\ dict_unpert_param_name_val = <<>>
    /\ cpu_count = 0
    /\ PATH = {}
    /\ pc = "none"
    /\ reaction = NewReaction
    /\ unperturbed_thread = NewCustomThread
    /\ parameter_task = <<>>
    /\ trial = <<>>
    /\ pkl = <<>>

\* McPUFF_Perturbed_Data: the class attributes (lines 111-164) and the three
\* lists of lines 167-169.  A field that is None is <<>>, a field that has
\* been set is <<value>>.
NewMPD ==
    [list_of_Mod_Param_objects        |-> <<>>,
     list_of_TMC_Objects              |-> <<>>,
     list_of_Reac_objects             |-> <<>>,
     reaction_info                    |-> <<>>,
     dictionary_unpert_param_name_val |-> <<>>,
     program_flag                     |-> <<>>,
     With_TALYS_flag                  |-> <<>>,
     unperturbed_FY                   |-> <<>>,
     unperturbed_ignored_events       |-> <<>>,
     unperturbed_GEF_results          |-> <<>>,
     unperturbed_TALYS_results        |-> <<>>]

\* No parameter is perturbed on its own.
NoPerturberRun ==
    /\ param_name = "none"
    /\ distribution_flag = "none"
    /\ unpert_param_val = <<>>
    /\ rand_num = <<>>
    /\ pert_param_val = <<>>
    /\ ppc = "none"

\* No pickle directory is loaded.
NoLoaderRun ==
    /\ PKL_path = <<>>
    /\ MPD = NewMPD
    /\ scandir = <<>>
    /\ lpc = "none"

\* No GEF working directory is followed.
NoWorkingDirRun ==
    /\ GEF_working_dir = <<>>
    /\ worker = <<>>
    /\ TALYS_working_dir = {}
    /\ TALYS_ff_file_path = {}
    /\ With_TALYS_flag = FALSE

(***************************************************************************)
(* Bounds of the reducer model.                                            *)
(***************************************************************************)
MaxEvents == 4

\* Number of rows of the FY_TALYS table (np.zeros((300,11))).
TableRows == 300

\* Compound masses the tables are reduced against.
CompoundMasses == {4, 5}

\* Rows of the ".lmd" file in the column order of np.loadtxt:
\* <<Z1, Z2, A1sci, A2sci, Eexc1, Eexc2, TKEpre>>.
EventPool ==
    { <<1, 2, 1, 3, 0, 1, 2>>,      \* split (1,1 | 2,3), mass sum 4
      <<1, 2, 1, 3, 2, 1, 0>>,      \* same split, other energies
      <<2, 1, 3, 1, 1, 0, 2>>,      \* the same two fragments in opposite order
      <<1, 2, 2, 2, 1, 1, 1>>,      \* split (1,2 | 2,2), equal masses, sum 4
      <<2, 1, 2, 2, 0, 2, 1>>,      \* equal masses, fragments in opposite order
      <<1, 2, 1, 2, 1, 2, 3>>,      \* mass sum 3
      <<2, 1, 3, 2, 2, 0, 1>>,      \* mass sum 5, heavier fragment first
      <<1, 2, 2, 3, 0, 0, 1>> }     \* mass sum 5

\* The 10-event table of the scenario: three splits occurring 5, 4 and 1 times.
ScenarioTable ==
    << <<1, 2, 1, 3, 0, 1, 2>>, <<1, 2, 2, 2, 1, 1, 1>>, <<1, 2, 1, 3, 2, 1, 0>>,
       <<1, 2, 1, 3, 0, 1, 2>>, <<1, 2, 2, 2, 1, 1, 1>>, <<2, 1, 2, 2, 0, 2, 1>>,
       <<1, 2, 1, 3, 2, 1, 0>>, <<1, 2, 2, 2, 1, 1, 1>>, <<1, 2, 1, 3, 0, 1, 2>>,
       <<1, 2, 2, 2, 1, 1, 1>> >>

\* A table with one retained key more than FY_TALYS has rows: TableRows + 1
\* splits of mass sum 4, each occurring twice.
OverflowTable ==
    [i \in 1..(2 * (TableRows + 1)) |->
        <<((i - 1) % (TableRows + 1)) + 1, 1, 2, 2, 1, 1, 1>>]

\* A table that fills FY_TALYS to its last row: TableRows splits, each twice.
FullTable ==
    [i \in 1..(2 * TableRows) |-> <<((i - 1) % TableRows) + 1, 1, 2, 2, 1, 1, 1>>]

RawTables ==
    (UNION { [1..n -> EventPool] : n \in 1..MaxEvents })
        \cup {ScenarioTable, OverflowTable, FullTable}

(***************************************************************************)
(* Helpers.                                                                *)
(***************************************************************************)
RECURSIVE SumIdx(_, _, _)
\* sum of FY[i][col] over the index set idx
SumIdx(tab, idx, col) ==
    IF idx = {} THEN 0
    ELSE LET i == CHOOSE j \in idx : TRUE
         IN  tab[i][col] + SumIdx(tab, idx \ {i}, col)

RECURSIVE SumSqIdx(_, _, _)
SumSqIdx(tab, idx, col) ==
    IF idx = {} THEN 0
    ELSE LET i == CHOOSE j \in idx : TRUE
         IN  tab[i][col] * tab[i][col] + SumSqIdx(tab, idx \ {i}, col)

\* np.mean(x, dtype=float64) as <<sum, n>>
np_mean(tab, idx, col) == <<SumIdx(tab, idx, col), Cardinality(idx)>>

\* np.std(x, dtype=float64, ddof=1) as the variance <<n*sum(x^2)-sum(x)^2, n*(n-1)>>
np_std(tab, idx, col) ==
    LET n == Cardinality(idx)
        s == SumIdx(tab, idx, col)
    IN  <<n * SumSqIdx(tab, idx, col) - s * s, n * (n - 1)>>

\* Lexicographic order of two rows of FY[:,0:4], the order np.unique sorts by.
KeyLeq(a, b) ==
    \/ a[1] < b[1]
    \/ a[1] = b[1] /\ a[2] < b[2]
    \/ a[1] = b[1] /\ a[2] = b[2] /\ a[3] < b[3]
    \/ a[1] = b[1] /\ a[2] = b[2] /\ a[3] = b[3] /\ a[4] <= b[4]

\* the keys of S in ascending order: the j-th is the one with j keys up to it
SortKeys(S) ==
    LET ranked == {<<x, Cardinality({y \in S : KeyLeq(y, x)})>> : x \in S}
    IN  [j \in 1..Cardinality(S) |-> (CHOOSE p \in ranked : p[2] = j)[1]]

\* FY[:,0:4] of one row
Key(row) == <<row[1], row[2], row[3], row[4]>>

(***************************************************************************)
(* Reaction.FY_results, lines 862-876: FY is populated from lmdData.       *)
(* FY columns: <<Z1, A1sci, Z2, A2sci, TKEpre, Eexc1, Eexc2>>.             *)
(***************************************************************************)
PopulateFY(lmd) ==
    [i \in 1..Len(lmd) |->
        <<lmd[i][1], lmd[i][3], lmd[i][2], lmd[i][4], lmd[i][7], lmd[i][5], lmd[i][6]>>]

(***************************************************************************)
(* Reaction.GEF_FY_for_TALYS.                                              *)
(***************************************************************************)
\* a mass check that also takes the rows listing the heavier fragment first
index_Multichance_fission_HeavyFirst(tab, A) ==
    {i \in 1..Len(tab) : tab[i][2] + tab[i][4] # A \/ tab[i][2] > tab[i][4]}

\* np.where(FY[:,1]+FY[:,3] != A_compound)
index_Multichance_fission(tab, A) ==
    {i \in 1..Len(tab) : tab[i][2] + tab[i][4] # A}

\* np.delete(FY, idx, axis=0): a new array without the rows in idx
np_delete(tab, idx) ==
    LET Stays(i) == i \notin idx
        left     == SelectSeq([i \in 1..Len(tab) |-> i], Stays)
    IN  [j \in 1..Len(left) |-> tab[left[j]]]

MultichanceFilter_NoFilter(tab, A) == tab

\* lines 989-991
MultichanceFilter(tab, A) ==
    IF index_Multichance_fission(tab, A) # {}
    THEN np_delete(tab, index_Multichance_fission(tab, A))
    ELSE tab

SwapRows_NoSwap(tab) == tab

SwapRows_SwapOnEqual(tab) ==
    [i \in 1..Len(tab) |->
        IF tab[i][2] >= tab[i][4]
        THEN <<tab[i][3], tab[i][4], tab[i][1], tab[i][2], tab[i][5], tab[i][6], tab[i][7]>>
        ELSE tab[i]]

\* lines 994-998: rows with A1 > A2 get (Z1,A1) and (Z2,A2) exchanged, in place
SwapRows(tab) ==
    [i \in 1..Len(tab) |->
        IF tab[i][2] > tab[i][4]
        THEN <<tab[i][3], tab[i][4], tab[i][1], tab[i][2], tab[i][5], tab[i][6], tab[i][7]>>
        ELSE tab[i]]

\* np.unique(FY[:,0:4], axis=0): the sorted distinct keys
unique_yields(tab) == SortKeys({Key(tab[i]) : i \in 1..Len(tab)})

\* (row == FY[:,0:4]).all(axis=1).nonzero()
RowsOfKey(tab, k) == {i : i \in {j \in 1..Len(tab) : Key(tab[j]) = k}}

\* return_counts=True; unique_yields is computed once and bound to uy
unique_counts(tab) ==
    CHOOSE uc \in {[j \in 1..Len(uy) |-> Cardinality(RowsOfKey(tab, uy[j]))] :
                       uy \in {unique_yields(tab)}} : TRUE

\* line 1001: np.nonzero(unique_counts > 1), ascending positions in unique_yields
index_event_occur_more_than_once(tab) ==
    CHOOSE ie \in {LET MoreThanOnce(j) == uc[j] > 1
                       IN  SelectSeq([j \in 1..Len(uc) |-> j], MoreThanOnce) :
                       uc \in {unique_counts(tab)}} : TRUE

RetainedKeys_AtLeastOnce(tab) == unique_yields(tab)

\* lines 1002-1003 and 1013: unique_yields[index_event_occur_more_than_once]
RetainedKeys(tab) ==
    CHOOSE kept \in {[m \in 1..Len(ie) |-> uy[ie[m]]] :
                         uy \in {unique_yields(tab)},
                         ie \in {index_event_occur_more_than_once(tab)}} : TRUE

\* line 1010: np.count_nonzero(unique_counts == 1)
ignored_events_of(tab) ==
    CHOOSE n \in {Cardinality({j \in 1..Len(uc) : uc[j] = 1}) :
                      uc \in {unique_counts(tab)}} : TRUE

YieldDenominator_RawCount(tab, num_of_events, ignored) == num_of_events - ignored

\* a yield that leaves the singletons in the denominator
YieldDenominator_WithSingletons(tab, num_of_events, ignored) == Len(tab)

\* line 1011: len(FY[:,0]) - ignored_events, FY being the filtered array
YieldDenominator(tab, num_of_events, ignored) == Len(tab) - ignored

\* One populated row of FY_TALYS (lines 1005-1020):
\* <<Z1, A1, Z2, A2, Yield, TKE, TXE, Eexc1, W1, Eexc2, W2>>
SummaryRow(tab, k, denom) ==
    LET ind == RowsOfKey(tab, k)
    IN  << k[1], k[2], k[3], k[4],
           <<Cardinality(ind), denom>>,
           np_mean(tab, ind, 5),
           <<SumIdx(tab, ind, 6) + SumIdx(tab, ind, 7), Cardinality(ind)>>,
           np_mean(tab, ind, 6),
           np_std(tab, ind, 6),
           np_mean(tab, ind, 7),
           np_std(tab, ind, 7) >>

\* a reducer that keeps the first TableRows keys when there are more
GEF_FY_for_TALYS_Truncating(tab, A, num_of_events) ==
    LET filtered == MultichanceFilter(tab, A)
        swapped  == SwapRows(filtered)
        after    == IF index_Multichance_fission(tab, A) # {} THEN tab ELSE swapped
        all      == RetainedKeys(swapped)
        kept     == IF Len(all) > TableRows THEN SubSeq(all, 1, TableRows) ELSE all
        ignored  == ignored_events_of(swapped)
        denom    == YieldDenominator(swapped, num_of_events, ignored)
    IN  IF Len(kept) = 0
        THEN [status |-> "UnboundLocalError", FY_TALYS |-> <<>>, ignored_events |-> 0,
              FY_after |-> after]
        ELSE [status |-> "ok",
              FY_TALYS |-> [j \in 1..Len(kept) |-> SummaryRow(swapped, kept[j], denom)],
              ignored_events |-> ignored,
              FY_after |-> after]

\* The whole call.  FY_TALYS holds the populated rows; the remaining
\* TableRows - Len(FY_TALYS) rows of the table stay zero.  FY_after is the
\* caller's array object after the call: np.delete copies, so the swap is
\* visible to the caller exactly when no multi-chance row was deleted.
GEF_FY_for_TALYS(tab, A, num_of_events) ==
    LET filtered == MultichanceFilter(tab, A)
        swapped  == SwapRows(filtered)
        after    == IF index_Multichance_fission(tab, A) # {} THEN tab ELSE swapped
        kept     == RetainedKeys(swapped)
        ignored  == ignored_events_of(swapped)
        denom    == YieldDenominator(swapped, num_of_events, ignored)
    IN  IF Len(kept) > TableRows
        THEN \* line 1005: the slice assignment cannot broadcast
             [status |-> "ValueError", FY_TALYS |-> <<>>, ignored_events |-> 0,
              FY_after |-> after]
        ELSE IF Len(kept) = 0
        THEN \* line 1031: del k,row,ind with the loop never entered
             [status |-> "UnboundLocalError", FY_TALYS |-> <<>>, ignored_events |-> 0,
              FY_after |-> after]
        ELSE [status |-> "ok",
              FY_TALYS |-> [j \in 1..Len(kept) |-> SummaryRow(swapped, kept[j], denom)],
              ignored_events |-> ignored,
              FY_after |-> after]

NoResult == [status |-> "none", FY_TALYS |-> <<>>, ignored_events |-> 0, FY_after |-> <<>>]

(***************************************************************************)
(* SpecReducer: a table is read, handed to the reducer, and the reducer is *)
(* called a second time on the same array object.                          *)
(***************************************************************************)
RInit ==
    /\ lmdData \in RawTables
    /\ A_compound \in CompoundMasses
    /\ FY = <<>>
    /\ rpc = "read"
    /\ result1 = NoResult
    /\ result2 = NoResult
    /\ NoCampaign
    /\ NoPerturberRun
    /\ NoWorkingDirRun
    /\ NoLoaderRun

\* FY_results lines 862-876
LoadTable ==
    /\ rpc = "read"
    /\ FY' = PopulateFY(lmdData)
    /\ rpc' = "loaded"
    /\ UNCHANGED <<wvars, lmdData, A_compound, result1, result2, cvars, pvars, lvars>>

\* FY_results lines 878-879: first call
CallReducer ==
    /\ rpc = "loaded"
    /\ LET r == GEF_FY_for_TALYS(FY, A_compound, Len(lmdData))
       IN  /\ result1' = r
           /\ FY' = r.FY_after
    /\ rpc' = "called1"
    /\ UNCHANGED <<wvars, lmdData, A_compound, result2, cvars, pvars, lvars>>

\* a second call on the same array object, no caller mutation in between
CallReducerAgain ==
    /\ rpc = "called1"
    /\ LET r == GEF_FY_for_TALYS(FY, A_compound, Len(lmdData))
       IN  /\ result2' = r
           /\ FY' = r.FY_after
    /\ rpc' = "called2"
    /\ UNCHANGED <<wvars, lmdData, A_compound, result1, cvars, pvars, lvars>>

RNext == LoadTable \/ CallReducer \/ CallReducerAgain

SpecReducer == RInit /\ [][RNext]_vars

(***************************************************************************)
(* Properties of the reducer.                                              *)
(***************************************************************************)
Called == rpc \in {"called1", "called2"}

\* A row of the raw table whose fragment masses sum to the compound mass.
PassesMassCheck(r) == r[3] + r[4] = A_compound

\* The split of a raw row <<Z1, Z2, A1, A2, ...>> read lighter fragment first.
LightFirst(r) ==
    IF r[3] > r[4] THEN <<r[2], r[4], r[1], r[3]>> ELSE <<r[1], r[3], r[2], r[4]>>

\* The raw table without its multi-chance rows, removed before the reducer sees it.
PreFiltered == SelectSeq(lmdData, PassesMassCheck)

\* Number of rows of the raw table that pass the mass check and show split k.
Occurrences(k) ==
    Cardinality({i \in 1..Len(lmdData) :
                    PassesMassCheck(lmdData[i]) /\ LightFirst(lmdData[i]) = k})

CountedSplits ==
    {LightFirst(lmdData[i]) : i \in {j \in 1..Len(lmdData) : PassesMassCheck(lmdData[j])}}

\* sum of the occurrence counts (yield numerators) of the summary rows
YieldCounts(tab) ==
    Cardinality(UNION {{<<j, c>> : c \in 1..tab[j][5][1]} : j \in 1..Len(tab)})

\* the yields of the summary rows sum to 1
YieldsSumToOne(res) ==
    /\ res.status = "ok"
    /\ \A j \in 1..Len(res.FY_TALYS) : res.FY_TALYS[j][5][2] > 0
    /\ \A j \in 1..Len(res.FY_TALYS) :
           YieldCounts(res.FY_TALYS) = res.FY_TALYS[j][5][2]
    /\ Len(res.FY_TALYS) > 0

\* some split occurs more than once in the raw table as it was read
RawHasRepeatedSplit ==
    \E i, j \in 1..Len(lmdData) :
        /\ i # j
        /\ <<lmdData[i][1], lmdData[i][2], lmdData[i][3], lmdData[i][4]>>
             = <<lmdData[j][1], lmdData[j][2], lmdData[j][3], lmdData[j][4]>>

WithinCapacity == Cardinality({k \in CountedSplits : Occurrences(k) > 1}) <= TableRows

\* C1 as stated: for any raw table with at least one split occurring more
\* than once (and no more retained keys than the table holds) the yields of
\* the summary sum to 1.
C1_YieldSumAsStated ==
    (Called /\ RawHasRepeatedSplit /\ WithinCapacity) => YieldsSumToOne(result1)

\* C1 (amended): for any raw table in which at least one split, read lighter
\* fragment first, occurs more than once among the events whose fragment
\* masses sum to the compound mass, and with no more retained keys than the
\* table holds, the yields of the summary sum to 1: the occurrence counts of
\* the retained keys add up exactly to the denominator of the yields,
\* whatever multi-chance and singleton events the table contains.
C1_YieldSum ==
    (Called /\ (\E k \in CountedSplits : Occurrences(k) > 1) /\ WithinCapacity)
        => YieldsSumToOne(result1)

\* a table with a retained split, a singleton and a multi-chance event was reduced
C1_Witness ==
    /\ Called
    /\ \E k \in CountedSplits : Occurrences(k) > 1
    /\ \E k \in CountedSplits : Occurrences(k) = 1
    /\ \E i \in 1..Len(lmdData) : ~PassesMassCheck(lmdData[i])
    /\ result1.status = "ok"

\* C2: the reducer retains exactly the keys occurring at least twice among
\* the events that pass the multi-chance filter, each once, and returns the
\* number of keys occurring exactly once as ignored_singleton_count; the
\* 10-event table with splits occurring 5, 4 and 1 times gives 2 rows with
\* yields 5/9 and 4/9 and a count of 1.
C2_RetainedAndSingletons ==
    Called =>
        /\ result1.status = "ok"
        /\ {Key(result1.FY_TALYS[j]) : j \in 1..Len(result1.FY_TALYS)}
             = {k \in CountedSplits : Occurrences(k) > 1}
        /\ \A i, j \in 1..Len(result1.FY_TALYS) :
               Key(result1.FY_TALYS[i]) = Key(result1.FY_TALYS[j]) => i = j
        /\ result1.ignored_events
             = Cardinality({k \in CountedSplits : Occurrences(k) = 1})
        /\ (lmdData = ScenarioTable /\ A_compound = 4) =>
               /\ Len(result1.FY_TALYS) = 2
               /\ {result1.FY_TALYS[j][5] : j \in 1..2} = {<<5, 9>>, <<4, 9>>}
               /\ result1.ignored_events = 1

\* The part of C2 the code does satisfy: whenever the reducer returns, the
\* retained keys, their multiplicity and the singleton count are as claimed.
C2_WhenReturned ==
    (Called /\ result1.status = "ok") =>
        /\ {Key(result1.FY_TALYS[j]) : j \in 1..Len(result1.FY_TALYS)}
             = {k \in CountedSplits : Occurrences(k) > 1}
        /\ \A i, j \in 1..Len(result1.FY_TALYS) :
               Key(result1.FY_TALYS[i]) = Key(result1.FY_TALYS[j]) => i = j
        /\ result1.ignored_events
             = Cardinality({k \in CountedSplits : Occurrences(k) = 1})
        /\ (lmdData = ScenarioTable /\ A_compound = 4) =>
               /\ Len(result1.FY_TALYS) = 2
               /\ {result1.FY_TALYS[j][5] : j \in 1..2} = {<<5, 9>>, <<4, 9>>}
               /\ result1.ignored_events = 1

C2_ScenarioReduced ==
    Called /\ lmdData = ScenarioTable /\ A_compound = 4 /\ result1.status = "ok"

\* the outcome of a call without the caller's array
Outcome(res) == <<res.status, res.FY_TALYS, res.ignored_events>>

\* C3: no multi-chance event contributes to the result: every retained key
\* has fragment masses summing to the compound mass, and the outcome equals
\* the outcome on the table with the multi-chance events removed beforehand.
C3_MultiChanceFilter ==
    Called =>
        /\ \A j \in 1..Len(result1.FY_TALYS) :
               result1.FY_TALYS[j][2] + result1.FY_TALYS[j][4] = A_compound
        /\ \/ /\ PreFiltered = <<>>
              /\ result1.status # "ok"
           \/ /\ PreFiltered # <<>>
              /\ Outcome(result1)
                   = Outcome(GEF_FY_for_TALYS(PopulateFY(PreFiltered), A_compound,
                                              Len(PreFiltered)))

\* a table mixing multi-chance events with a retained split was reduced
C3_Witness ==
    /\ Called
    /\ result1.status = "ok"
    /\ \E i \in 1..Len(lmdData) : ~PassesMassCheck(lmdData[i])
    /\ Len(PreFiltered) >= 2

\* two raw rows list the same two fragments, of different mass, in opposite order
OppositeOrder(r, q) ==
    /\ r[3] # r[4]
    /\ <<q[1], q[2], q[3], q[4]>> = <<r[2], r[1], r[4], r[3]>>

\* C4: every retained row of the summary has light-fragment mass <=
\* heavy-fragment mass, and two raw events listing the same two fragments of
\* different mass in opposite order are counted under one and the same key.
C4_Canonical ==
    (Called /\ result1.status = "ok") =>
        /\ \A j \in 1..Len(result1.FY_TALYS) :
               result1.FY_TALYS[j][2] <= result1.FY_TALYS[j][4]
        /\ \A a, b \in 1..Len(lmdData) :
               ( /\ PassesMassCheck(lmdData[a])
                 /\ PassesMassCheck(lmdData[b])
                 /\ OppositeOrder(lmdData[a], lmdData[b]) )
               => \E j \in 1..Len(result1.FY_TALYS) :
                      /\ Key(result1.FY_TALYS[j]) = LightFirst(lmdData[a])
                      /\ result1.FY_TALYS[j][5][1]
                           = Cardinality({i \in 1..Len(lmdData) :
                                 /\ PassesMassCheck(lmdData[i])
                                 /\ \/ Key(PopulateFY(lmdData)[i]) = Key(PopulateFY(lmdData)[a])
                                    \/ Key(PopulateFY(lmdData)[i]) = Key(PopulateFY(lmdData)[b])})
                      /\ \A h \in 1..Len(result1.FY_TALYS) :
                             Key(result1.FY_TALYS[h]) \in
                                 {Key(PopulateFY(lmdData)[a]), Key(PopulateFY(lmdData)[b])}
                             => h = j

\* a table with the same two fragments in both orders was reduced
C4_Witness ==
    /\ Called
    /\ result1.status = "ok"
    /\ \E a, b \in 1..Len(lmdData) :
           /\ PassesMassCheck(lmdData[a])
           /\ PassesMassCheck(lmdData[b])
           /\ OppositeOrder(lmdData[a], lmdData[b])

\* C5: calling the reducer twice in a row on the same array object gives the
\* same summary table and the same ignored_singleton_count.
C5_Idempotent ==
    rpc = "called2" => Outcome(result2) = Outcome(result1)

\* the second call saw an array the first call had swapped in place
C5_Witness ==
    /\ rpc = "called2"
    /\ result1.status = "ok"
    /\ \E i \in 1..Len(lmdData) : lmdData[i][3] > lmdData[i][4]
    /\ FY # PopulateFY(lmdData)

\* the second call saw an unchanged array because the first call had copied it
C5_WitnessCopied ==
    /\ rpc = "called2"
    /\ result1.status = "ok"
    /\ \E i \in 1..Len(lmdData) : ~PassesMassCheck(lmdData[i])
    /\ \E i \in 1..Len(lmdData) :
           PassesMassCheck(lmdData[i]) /\ lmdData[i][3] > lmdData[i][4]
    /\ FY = PopulateFY(lmdData)

(***************************************************************************)
(* Part II: the campaign Reaction.__init__.                                *)
(*                                                                         *)
(* The main thread starts the baseline thread, runs the perturbed trials   *)
(* in a worker pool, collects their results, joins the baseline thread and *)
(* pickles the Reaction object.  GEF and TALYS are the environment: which  *)
(* executables are on the PATH is fixed for a campaign, what an invocation *)
(* leaves behind is chosen per invocation.                                 *)
(***************************************************************************)
MaxParams == 2
MaxRandoms == 2

\* Three of the GEF parameter names (Gaussian_GEF_Param.py), as the keys of
\* the dictionary read from Parameters.bas
ParameterNames == <<"SIGDEFO", "SIGDEFO_0", "kappa">>

ProgramFlags == {"Single_Parameters", "TMC", "Other"}

DistributionFlags == {"uniform", "normal", "max-min", "gauss"}

CpuCounts == {2, 5, 8}

Executables == {"GEF", "talys"}

\* Compound mass of the campaign's reaction.
CampaignCompound == 4

\* A table with one split occurring twice and one occurring once.
RepeatsTable ==
    << <<1, 2, 1, 3, 0, 1, 2>>, <<2, 1, 3, 1, 1, 0, 2>>, <<1, 2, 2, 2, 1, 1, 1>> >>

\* A table in which every split occurs once.
SinglesTable == << <<1, 2, 1, 3, 0, 1, 2>>, <<1, 2, 2, 2, 1, 1, 1>> >>

\* What one GEF run can leave in its working directory: the ".lmd" file
\* (absent, empty, or with rows) and the ".dat" file.
GEF_outputs ==
    {[lmd_exists |-> FALSE, lmd_rows |-> <<>>,         dat_exists |-> TRUE],
     [lmd_exists |-> TRUE,  lmd_rows |-> <<>>,         dat_exists |-> TRUE],
     [lmd_exists |-> TRUE,  lmd_rows |-> RepeatsTable, dat_exists |-> TRUE],
     [lmd_exists |-> TRUE,  lmd_rows |-> RepeatsTable, dat_exists |-> FALSE],
     [lmd_exists |-> TRUE,  lmd_rows |-> SinglesTable, dat_exists |-> TRUE]}

\* Exit status of bash -c "talys < in > out": 127 when bash finds no talys.
TALYS_returncodes == IF "talys" \in PATH THEN {0, 1} ELSE {127}

\* The reducer is not examined on its own during a campaign.
NoReducerRun ==
    /\ lmdData = <<>>
    /\ A_compound = CampaignCompound
    /\ FY = <<>>
    /\ rpc = "none"
    /\ result1 = NoResult
    /\ result2 = NoResult

Parameters == {dict_unpert_param_name_val[i] : i \in 1..Len(dict_unpert_param_name_val)}

\* Position of a key in the dictionary (submission order of its task).
Pos(p) == CHOOSE i \in 1..Len(dict_unpert_param_name_val) : dict_unpert_param_name_val[i] = p

\* Reaction.__init__ line 255
number_of_workers == (cpu_count - 2) \div 3

\* perturbed_calculations_single_parameter line 1210
simultaneous_threads_per_param == (cpu_count - number_of_workers) \div 2

\* Reaction.__init__ line 270
max_multithreads_TMC == (2 * cpu_count) \div 3

\* Modified_Parameter.__init__: the distributions it knows
SingleParameterDistributions == {"uniform", "normal", "max-min"}

\* TMC_Mod_Param_object.__init__: the distributions it knows
TMCDistributions == {"uniform", "normal"}

\* Modified_Parameter.__init__: indexes of list_of_rand_num
\* (size=num_of_rands for uniform and normal, the list [1,1.5] for max-min)
RandNumIndexes ==
    IF dist_flag \in {"uniform", "normal"} THEN 0..(number_of_randoms - 1) ELSE {0, 1}

\* range(int(number_of_randoms)) with an off-by-one start
TMCIndexes_FromOne == 1..(number_of_randoms - 1)

\* Reaction.__init__ line 275: range(int(number_of_randoms))
TMCIndexes == 0..(number_of_randoms - 1)

(***************************************************************************)
(* Decimal numbers.  The number k * 10^(-e) is the pair <<k, e>> with the  *)
(* smallest e >= 0 that represents it, so that equal numbers are equal     *)
(* pairs.  Arithmetic is exact; numpy's nan is the pair NaN.               *)
(***************************************************************************)
RECURSIVE Pow10(_)
Pow10(n) == IF n = 0 THEN 1 ELSE 10 * Pow10(n - 1)

RECURSIVE Norm(_)
Norm(x) ==
    IF x[2] > 0 /\ x[1] % 10 = 0 THEN Norm(<<x[1] \div 10, x[2] - 1>>) ELSE x

Zero == <<0, 0>>

One == <<1, 0>>

NaN == <<0, -1>>

\* Python's None where a number is expected
None == <<0, -2>>

IsNaN(x) == x[2] < 0

Sign(x) == IF x[1] > 0 THEN 1 ELSE IF x[1] < 0 THEN -1 ELSE 0

Neg(x) == <<-x[1], x[2]>>

abs(x) == IF x[1] < 0 THEN Neg(x) ELSE x

Add(x, y) ==
    IF x[1] = 0 THEN y
    ELSE IF y[1] = 0 THEN x
    ELSE LET e == IF x[2] > y[2] THEN x[2] ELSE y[2]
         IN  Norm(<<x[1] * Pow10(e - x[2]) + y[1] * Pow10(e - y[2]), e>>)

Mul(x, y) == Norm(<<x[1] * y[1], x[2] + y[2]>>)

\* x / y for y = abs(x), as line 2126 divides: 0/0 is nan
DivByAbs(x) == IF x[1] = 0 THEN NaN ELSE <<Sign(x), 0>>

\* round(x, ndigits) of numpy: to the nearest multiple of 10^(-ndigits),
\* a tie to the even one; nan stays nan
round(x, ndigits) ==
    IF IsNaN(x) \/ x[2] <= ndigits THEN x
    ELSE LET q    == Pow10(x[2] - ndigits)
             a    == abs(x)[1]
             lo   == a \div q
             rest == a % q
             m    == IF 2 * rest > q \/ (2 * rest = q /\ lo % 2 = 1) THEN lo + 1 ELSE lo
         IN  Norm(<<Sign(x) * m, ndigits>>)

(***************************************************************************)
(* Sampler (Modified_Parameter.__init__, TMC_Mod_Param_object.__init__)    *)
(* and perturber (create_perturbed_parameter_value).  What the random      *)
(* generator returns is an input: outcome i of a call is one of a few      *)
(* points of the distribution's range.                                     *)
(***************************************************************************)
\* Values of Parameters.bas for the three parameters (column 3 of a line)
Parameters_bas(p) ==
    CASE p = "SIGDEFO"   -> <<165, 3>>
      [] p = "SIGDEFO_0" -> <<-45, 1>>
      [] p = "kappa"     -> Zero

\* Points of [0, 1) a generator call can return
UnitDraws == <<Zero, <<25, 2>>, <<9, 1>> >>

\* Standard normal deviates a generator call can return
NormalDraws == <<Neg(One), Zero, <<2, 0>> >>

Outcomes == 1..Len(UnitDraws)

\* default_rng().uniform(low, high): low + u * (high - low)
rng_uniform(low, high, i) == Add(low, Mul(UnitDraws[i], Add(high, Neg(low))))

\* default_rng().normal(loc, scale): loc + z * scale
rng_normal(loc, scale, i) == Add(loc, Mul(NormalDraws[i], scale))

\* Gaussian_GEF_Param.gaussian_st_dev_for_parameter: 3 % of the value
perturbation_in_percent == <<3, 2>>

gaussian_st_dev_for_parameter(p, param_val) == Mul(param_val, perturbation_in_percent)

\* lines 2012, 2707
scaling_number_uniform == <<5, 1>>

\* line 2024: the scale factors [1, 1.5]
max_min_list_of_rand_num == <<One, <<15, 1>> >>

\* lines 2011-2015 and 2706-2710: one uniform random number
uniform_rand_num(nominal, i) ==
    LET upper_lim == Add(abs(nominal), Mul(scaling_number_uniform, abs(nominal)))
        lower_lim == Add(abs(nominal), Neg(Mul(scaling_number_uniform, abs(nominal))))
    IN  rng_uniform(lower_lim, upper_lim, i)

\* lines 2018-2020 and 2713-2715: one normal random number
normal_rand_num(p, nominal, i) ==
    rng_normal(nominal, abs(gaussian_st_dev_for_parameter(p, nominal)), i)

\* lines 2106, 2119, 2132
special_case_parameters_None == {}

special_case_parameters ==
    {"_Delta_S0", "P_att_pol2", "P_att_pol3", "kappa", "Epot_shift",
     "SIGDEFO_slope", "ZPOL1", "P_n_x", "T_orbital"}

scaling_special_case_parameters == <<5, 1>>

st_dev_special_param == <<3, 2>>

\* line 2126 without the sign of the nominal value
UniformOrdinary_NoSign(unpert, rand) == round(rand, 9)

\* line 2126
UniformOrdinary(unpert, rand) ==
    IF IsNaN(DivByAbs(unpert)) THEN NaN ELSE round(Mul(DivByAbs(unpert), rand), 9)

\* Modified_Parameter.create_perturbed_parameter_value (lines 2106-2152);
\* i is the outcome of the generator call the special cases make.  An
\* unknown distribution falls through and returns None.
create_perturbed_parameter_value(p, rand, unpert, dist, i) ==
    CASE dist = "uniform" ->
           IF p \in special_case_parameters
           THEN round(Add(Neg(scaling_special_case_parameters),
                          Mul(Mul(UnitDraws[i], <<2, 0>>), scaling_special_case_parameters)), 9)
           ELSE UniformOrdinary(unpert, rand)
      [] dist = "normal" ->
           IF p \in special_case_parameters
           THEN round(rng_normal(Zero, st_dev_special_param, i), 9)
           ELSE round(rand, 9)
      [] dist = "max-min" ->
           IF p \in special_case_parameters
           THEN round(Add(rand, Neg(One)), 9)
           ELSE round(Mul(unpert, rand), 9)
      [] OTHER -> None

(***************************************************************************)
(* Calls of the trial executors.                                           *)
(***************************************************************************)
UnperturbedKey == <<"Unperturbed", "", 0>>

\* the futures of the inner pools told apart by the trial index alone
ParamKey_IndexOnly(p, n) == <<"Param", "", n>>

\* a future of the inner pool of parameter p (future_rand_param_val, local
\* to one call of perturbed_calculations_single_parameter, line 1215)
ParamKey(p, n) == <<"Param", p, n>>

TMCKey(n) == <<"TMC", "", n>>

\* Random_Parameter_value.__init__ / TMC_Object.__init__ and the call's position
NewCall ==
    [phase                         |-> "queued",
     exc                           |-> "",
     returncode                    |-> <<>>,
     ignored_events                |-> <<>>,
     perturbed_FY                  |-> <<>>,
     perturbed_GEF_results         |-> "{}",
     perturbed_TALYS_results       |-> "{}",
     list_of_TMC_Mod_Param_objects |-> <<>>]

Raise(t, e) == [t EXCEPT !.phase = "raised", !.exc = e]

Submit(keys) ==
    [k \in (DOMAIN trial) \cup keys |-> IF k \in DOMAIN trial THEN trial[k] ELSE NewCall]

Running(k) == k \in DOMAIN trial /\ trial[k].phase \in {"gef", "talys"}

Terminal(k) == k \in DOMAIN trial /\ trial[k].phase \in {"returned", "raised"}

\* subprocess.Popen(["GEF"], ...): FileNotFoundError when GEF is not on the PATH
InvokeGEF(t) ==
    IF "GEF" \in PATH THEN [t EXCEPT !.phase = "gef"] ELSE Raise(t, "FileNotFoundError")

\* Reaction.FY_results
FY_results(out) ==
    IF ~out.lmd_exists \/ out.lmd_rows = <<>>
    THEN [exc |-> "SystemExit", FY_TALYS_format |-> <<>>, ignored_events |-> 0]
    ELSE LET r == GEF_FY_for_TALYS(PopulateFY(out.lmd_rows), A_compound, Len(out.lmd_rows))
         IN  IF r.status = "ok"
             THEN [exc |-> "", FY_TALYS_format |-> r.FY_TALYS, ignored_events |-> r.ignored_events]
             ELSE [exc |-> r.status, FY_TALYS_format |-> <<>>, ignored_events |-> 0]

\* FY_results, read_and_clear_GEF_results and, with TALYS, the steps up to
\* subprocess.run of talys
ReadGEF(t, out) ==
    LET fy == FY_results(out)
    IN  IF fy.exc # "" THEN Raise(t, fy.exc)
        ELSE IF ~out.dat_exists THEN Raise(t, "SystemExit")
        ELSE [t EXCEPT !.perturbed_FY = <<fy.FY_TALYS_format>>,
                       !.ignored_events = <<fy.ignored_events>>,
                       !.perturbed_GEF_results = "GEF_data",
                       !.phase = IF with_TALYS THEN "talys" ELSE "returned"]

\* subprocess.run returns whatever the exit status (no check=True);
\* read_and_clear_TALYS_results finds the output files or none
ReadTALYS(t, status) ==
    [t EXCEPT !.returncode = <<status>>,
              !.perturbed_TALYS_results = IF status = 0 THEN "TALYS_data" ELSE "{}",
              !.phase = "returned"]

\* The generator outcome a call of the campaign gets: the campaign is run
\* for one fixed sequence of outcomes.
OutcomeOf(n) == (n % Len(UnitDraws)) + 1

\* Modified_Parameter.__init__: element n of list_of_rand_num
list_of_rand_num(p, n) ==
    CASE dist_flag = "uniform" -> uniform_rand_num(Parameters_bas(p), OutcomeOf(n))
      [] dist_flag = "normal"  -> normal_rand_num(p, Parameters_bas(p), OutcomeOf(n))
      [] dist_flag = "max-min" -> max_min_list_of_rand_num[n + 1]

\* The object create_perturbed_FY returns (lines 2260-2262, 2303)
Random_Parameter_value(p, n, t) ==
    [param_name              |-> p,
     unpert_param_val        |-> Parameters_bas(p),
     random_value            |-> list_of_rand_num(p, n),
     enumeration_rand_num    |-> n,
     pert_param_val          |-> create_perturbed_parameter_value(
                                     p, list_of_rand_num(p, n), Parameters_bas(p),
                                     dist_flag, OutcomeOf(n)),
     ignored_events          |-> t.ignored_events,
     perturbed_FY            |-> t.perturbed_FY,
     perturbed_GEF_results   |-> t.perturbed_GEF_results,
     perturbed_TALYS_results |-> t.perturbed_TALYS_results]

\* The object create_perturbed_TMC_FY returns
TMC_Object(n, t) ==
    [enumeration_rand_val          |-> n,
     list_of_TMC_Mod_Param_objects |-> t.list_of_TMC_Mod_Param_objects,
     ignored_events                |-> t.ignored_events,
     perturbed_FY                  |-> t.perturbed_FY,
     perturbed_GEF_results         |-> t.perturbed_GEF_results,
     perturbed_TALYS_results       |-> t.perturbed_TALYS_results]

\* Custom_Thread.run: the four fields are set when the target returns; an
\* exception or sys.exit in the target ends the thread and leaves them
ThreadAfter(t) ==
    IF t.phase = "raised" THEN [unperturbed_thread EXCEPT !.state = "died"]
    ELSE IF t.phase = "returned"
    THEN [state                      |-> "finished",
          unperturbed_FY             |-> t.perturbed_FY,
          unperturbed_ignored_events |-> t.ignored_events,
          unperturbed_GEF_results    |-> t.perturbed_GEF_results,
          unperturbed_TALYS_results  |-> t.perturbed_TALYS_results]
    ELSE unperturbed_thread

\* The orders in which a set of futures can be iterated
Orders(S) ==
    {f \in [1..Cardinality(S) -> S] : \A i, j \in 1..Cardinality(S) : f[i] = f[j] => i = j}

(***************************************************************************)
(* Specification Spec: one campaign.                                       *)
(***************************************************************************)
Init ==
    /\ NoReducerRun
    /\ program_flag \in ProgramFlags
    /\ dist_flag \in DistributionFlags
    /\ with_TALYS \in BOOLEAN
    /\ number_of_randoms \in 1..MaxRandoms
    /\ dict_unpert_param_name_val \in {SubSeq(ParameterNames, 1, P) : P \in 1..MaxParams}
    /\ cpu_count \in CpuCounts
    /\ PATH \in SUBSET Executables
    /\ ~with_TALYS => "talys" \in PATH      \* talys is looked for only with TALYS
    /\ pc = "start"
    /\ reaction = NewReaction
    /\ unperturbed_thread = NewCustomThread
    /\ parameter_task = <<>>
    /\ trial = <<>>
    /\ pkl = <<>>
    /\ NoPerturberRun
    /\ NoWorkingDirRun
    /\ PKL_path = <<>>
    /\ MPD = NewMPD
    /\ scandir = <<>>
    /\ lpc = "idle"

config == <<program_flag, dist_flag, with_TALYS, number_of_randoms,
            dict_unpert_param_name_val, cpu_count, PATH>>

\* ---- main thread --------------------------------------------------------
\* lines 245-252: the baseline thread is created and started
StartUnperturbedThread ==
    /\ pc = "start"
    /\ unperturbed_thread' = [unperturbed_thread EXCEPT !.state = "started"]
    /\ trial' = Submit({UnperturbedKey})
    /\ pc' = "dispatch"
    /\ UNCHANGED <<wvars, rvars, pvars, lvars, config, reaction, parameter_task, pkl>>

\* Modified_Parameter object and future of one parameter's task
NewTask == [state |-> "queued", exc |-> "", list_of_Random_Parameter_Value_objects |-> <<>>]

\* lines 254-260: one task per key of the dictionary; ThreadPoolExecutor
\* raises ValueError for max_workers <= 0, which ends in sys.exit (264-266)
SubmitParameterTasks ==
    /\ pc = "dispatch"
    /\ program_flag = "Single_Parameters"
    /\ IF number_of_workers < 1
       THEN pc' = "exited" /\ UNCHANGED parameter_task
       ELSE pc' = "in_pool" /\ parameter_task' = [p \in Parameters |-> NewTask]
    /\ UNCHANGED <<wvars, rvars, pvars, lvars, config, reaction, unperturbed_thread, trial, pkl>>

\* lines 269-275: one task per n in range(number_of_randoms)
SubmitTMCTasks ==
    /\ pc = "dispatch"
    /\ program_flag = "TMC"
    /\ IF max_multithreads_TMC < 1
       THEN pc' = "exited" /\ UNCHANGED trial
       ELSE pc' = "in_pool" /\ trial' = Submit({TMCKey(n) : n \in TMCIndexes})
    /\ UNCHANGED <<wvars, rvars, pvars, lvars, config, reaction, unperturbed_thread, parameter_task, pkl>>

\* lines 282-284
IncorrectProgramFlag ==
    /\ pc = "dispatch"
    /\ program_flag \notin {"Single_Parameters", "TMC"}
    /\ pc' = "exited"
    /\ UNCHANGED <<wvars, rvars, pvars, lvars, config, reaction, unperturbed_thread, parameter_task, trial, pkl>>

\* The futures the main thread submitted
SubmittedFutures ==
    IF program_flag = "Single_Parameters" THEN DOMAIN parameter_task
    ELSE {n \in TMCIndexes : TMCKey(n) \in DOMAIN trial}

FutureDone(f) ==
    IF program_flag = "Single_Parameters"
    THEN parameter_task[f].state \in {"returned", "raised"}
    ELSE Terminal(TMCKey(f))

FutureRaised(f) ==
    IF program_flag = "Single_Parameters"
    THEN parameter_task[f].state = "raised"
    ELSE trial[TMCKey(f)].phase = "raised"

\* The futures whose result the main thread has appended
Collected ==
    IF program_flag = "Single_Parameters"
    THEN {reaction.list_of_Mod_Param_objects[i].param_name :
              i \in 1..Len(reaction.list_of_Mod_Param_objects)}
    ELSE {reaction.list_of_TMC_Objects[i].enumeration_rand_val :
              i \in 1..Len(reaction.list_of_TMC_Objects)}

\* end of the with block (lines 258-260, 273-275): shutdown(wait=True)
ShutdownPool ==
    /\ pc = "in_pool"
    /\ \A f \in SubmittedFutures : FutureDone(f)
    /\ pc' = "collect"
    /\ UNCHANGED <<wvars, rvars, pvars, lvars, config, reaction, unperturbed_thread, parameter_task, trial, pkl>>

\* lines 261-266 and 276-280: as_completed hands out the finished futures in
\* any order; result() returns the object or raises what the task raised,
\* and either way of raising ends the process
CollectResult(f) ==
    /\ pc = "collect"
    /\ f \in SubmittedFutures \ Collected
    /\ IF FutureRaised(f)
       THEN pc' = "exited" /\ UNCHANGED reaction
       ELSE /\ pc' = pc
            /\ reaction' =
                 IF program_flag = "Single_Parameters"
                 THEN [reaction EXCEPT !.list_of_Mod_Param_objects =
                          Append(@, [param_name |-> f,
                                     list_of_Random_Parameter_Value_objects |->
                                         parameter_task[f].list_of_Random_Parameter_Value_objects])]
                 ELSE [reaction EXCEPT !.list_of_TMC_Objects =
                          Append(@, TMC_Object(f, trial[TMCKey(f)]))]
    /\ UNCHANGED <<wvars, rvars, pvars, lvars, config, unperturbed_thread, parameter_task, trial, pkl>>

\* the four fields are copied without waiting for the thread
join_NoWait == TRUE

\* line 286: unperturbed_thread.join() returns once the thread has ended
join == unperturbed_thread.state \in {"finished", "died"}

\* lines 286-290: join, then the four fields are copied
JoinUnperturbedThread ==
    /\ pc = "collect"
    /\ SubmittedFutures \subseteq Collected
    /\ join
    /\ reaction' = [reaction EXCEPT
                       !.unperturbed_FY = unperturbed_thread.unperturbed_FY,
                       !.unperturbed_GEF_results = unperturbed_thread.unperturbed_GEF_results,
                       !.unperturbed_TALYS_results = unperturbed_thread.unperturbed_TALYS_results,
                       !.unperturbed_ignored_events = unperturbed_thread.unperturbed_ignored_events]
    /\ pc' = "joined"
    /\ UNCHANGED <<wvars, rvars, pvars, lvars, config, unperturbed_thread, parameter_task, trial, pkl>>

DecimalDigits == <<"0", "1", "2", "3", "4", "5", "6", "7", "8", "9">>

\* str(n) of a non-negative int
RECURSIVE str(_)
str(n) ==
    IF n < 10 THEN <<DecimalDigits[n + 1]>>
    ELSE str(n \div 10) \o <<DecimalDigits[(n % 10) + 1]>>

\* E_reaction as the f-string of line 293 prints it
CampaignEnergy == <<"2", ".", "5">>

\* line 293: f'Z{Z_target}_A{A_compound}_n_E{E_reaction}MeV.pkl'
PickleFileName ==
    <<"Z">> \o str(CampaignTarget) \o <<"_", "A">> \o str(A_compound)
        \o <<"_", "n", "_", "E">> \o CampaignEnergy \o <<"M", "e", "V", ".", "p", "k", "l">>

\* lines 293-294: the object is written to the file of that name in PKL_path
PickleResults ==
    /\ pc = "joined"
    /\ pkl' = <<reaction>>
    /\ PKL_path' = (PickleFileName :> [is_file |-> TRUE, obj |-> reaction])
    /\ pc' = "done"
    /\ UNCHANGED <<wvars, rvars, pvars, MPD, scandir, lpc, config, reaction, unperturbed_thread,
                   parameter_task, trial>>

\* ---- baseline thread: create_unperturbed_FY ------------------------------
\* lines 519-532
UnperturbedInvokeGEF ==
    /\ UnperturbedKey \in DOMAIN trial
    /\ trial[UnperturbedKey].phase = "queued"
    /\ LET t == InvokeGEF(trial[UnperturbedKey])
       IN  /\ trial' = [trial EXCEPT ![UnperturbedKey] = t]
           /\ unperturbed_thread' = ThreadAfter(t)
    /\ UNCHANGED <<wvars, rvars, pvars, lvars, config, pc, reaction, parameter_task, pkl>>

\* lines 533-545 (and Custom_Thread.run when TALYS is off)
UnperturbedReadGEF ==
    /\ UnperturbedKey \in DOMAIN trial
    /\ trial[UnperturbedKey].phase = "gef"
    /\ \E out \in GEF_outputs :
         LET t == ReadGEF(trial[UnperturbedKey], out)
         IN  /\ trial' = [trial EXCEPT ![UnperturbedKey] = t]
             /\ unperturbed_thread' = ThreadAfter(t)
    /\ UNCHANGED <<wvars, rvars, pvars, lvars, config, pc, reaction, parameter_task, pkl>>

\* lines 545-556 and Custom_Thread.run
UnperturbedReadTALYS ==
    /\ UnperturbedKey \in DOMAIN trial
    /\ trial[UnperturbedKey].phase = "talys"
    /\ \E status \in TALYS_returncodes :
         LET t == ReadTALYS(trial[UnperturbedKey], status)
         IN  /\ trial' = [trial EXCEPT ![UnperturbedKey] = t]
             /\ unperturbed_thread' = ThreadAfter(t)
    /\ UNCHANGED <<wvars, rvars, pvars, lvars, config, pc, reaction, parameter_task, pkl>>

\* ---- outer pool: perturbed_calculations_single_parameter -----------------
\* A worker of the outer pool takes the next task (lines 1204-1217):
\* Modified_Parameter.__init__ exits on an unknown distribution, otherwise
\* one call of create_perturbed_FY is submitted per random number
StartParameterTask(p) ==
    /\ p \in DOMAIN parameter_task
    /\ parameter_task[p].state = "queued"
    /\ \A q \in DOMAIN parameter_task :
           Pos(q) < Pos(p) => parameter_task[q].state # "queued"
    /\ Cardinality({q \in DOMAIN parameter_task : parameter_task[q].state = "running"})
           < number_of_workers
    /\ IF dist_flag \notin SingleParameterDistributions
       THEN /\ parameter_task' = [parameter_task EXCEPT ![p].state = "raised",
                                                        ![p].exc = "SystemExit_distribution"]
            /\ UNCHANGED trial
       ELSE /\ parameter_task' = [parameter_task EXCEPT ![p].state = "running"]
            /\ trial' = Submit({ParamKey(p, n) : n \in RandNumIndexes})
    /\ UNCHANGED <<wvars, rvars, pvars, lvars, config, pc, reaction, unperturbed_thread, pkl>>

\* Indexes a trial can have (range(number_of_randoms), or 0 and 1 for max-min)
TrialIndexes == 0..(MaxRandoms + 1)

\* The trials of p that have been submitted
TrialsOf(p) == {n \in TrialIndexes : ParamKey(p, n) \in DOMAIN trial}

\* The inner with block is left as soon as some trial has completed
InnerPoolShutdown_FirstCompleted(p) == \E n \in TrialsOf(p) : Terminal(ParamKey(p, n))

\* end of the inner with block (line 1214) and wait(ALL_COMPLETED) (line 1218)
InnerPoolShutdown(p) == \A n \in TrialsOf(p) : Terminal(ParamKey(p, n))

\* future_done of line 1218
future_done(p) == {n \in TrialsOf(p) : Terminal(ParamKey(p, n))}

\* lines 1218-1226: the results are appended in the iteration order of the
\* set future_done; a raised trial ends the task in sys.exit.  The futures
\* of the inner pool are dropped when the function is left (del, line 1221)
FinishParameterTask(p) ==
    /\ p \in DOMAIN parameter_task
    /\ parameter_task[p].state = "running"
    /\ InnerPoolShutdown(p)
    /\ IF \E n \in future_done(p) : trial[ParamKey(p, n)].phase = "raised"
       THEN parameter_task' = [parameter_task EXCEPT ![p].state = "raised",
                                                     ![p].exc = "SystemExit"]
       ELSE \E order \in Orders(future_done(p)) :
              parameter_task' = [parameter_task EXCEPT
                  ![p].state = "returned",
                  ![p].list_of_Random_Parameter_Value_objects =
                      [i \in 1..Cardinality(future_done(p)) |->
                          Random_Parameter_value(p, order[i], trial[ParamKey(p, order[i])])]]
    /\ trial' = [k \in (DOMAIN trial) \ {ParamKey(p, n) : n \in TrialsOf(p)} |-> trial[k]]
    /\ UNCHANGED <<wvars, rvars, pvars, lvars, config, pc, reaction, unperturbed_thread, pkl>>

\* ---- inner pool: create_perturbed_FY --------------------------------------
\* lines 2258-2277: a worker of p's pool takes the next call
PerturbedInvokeGEF(p, n) ==
    /\ ParamKey(p, n) \in DOMAIN trial
    /\ trial[ParamKey(p, n)].phase = "queued"
    /\ \A m \in TrialsOf(p) : m < n => trial[ParamKey(p, m)].phase # "queued"
    /\ Cardinality({m \in TrialsOf(p) : Running(ParamKey(p, m))})
           < simultaneous_threads_per_param
    /\ trial' = [trial EXCEPT ![ParamKey(p, n)] = InvokeGEF(@)]
    /\ UNCHANGED <<wvars, rvars, pvars, lvars, config, pc, reaction, unperturbed_thread, parameter_task, pkl>>

\* lines 2278-2291
PerturbedReadGEF(p, n) ==
    /\ ParamKey(p, n) \in DOMAIN trial
    /\ trial[ParamKey(p, n)].phase = "gef"
    /\ \E out \in GEF_outputs : trial' = [trial EXCEPT ![ParamKey(p, n)] = ReadGEF(@, out)]
    /\ UNCHANGED <<wvars, rvars, pvars, lvars, config, pc, reaction, unperturbed_thread, parameter_task, pkl>>

\* lines 2291-2303
PerturbedReadTALYS(p, n) ==
    /\ ParamKey(p, n) \in DOMAIN trial
    /\ trial[ParamKey(p, n)].phase = "talys"
    /\ \E status \in TALYS_returncodes :
         trial' = [trial EXCEPT ![ParamKey(p, n)] = ReadTALYS(@, status)]
    /\ UNCHANGED <<wvars, rvars, pvars, lvars, config, pc, reaction, unperturbed_thread, parameter_task, pkl>>

\* ---- TMC pool: create_perturbed_TMC_FY ------------------------------------
\* TMC_Mod_Param_object.__init__ (uniform and normal) and line 2407, for the
\* parameter at position j of the dictionary in trial n
TMC_Mod_Param_object(j, n) ==
    LET p            == dict_unpert_param_name_val[j]
        random_value == IF dist_flag = "uniform"
                        THEN uniform_rand_num(Parameters_bas(p), OutcomeOf(n + j))
                        ELSE normal_rand_num(p, Parameters_bas(p), OutcomeOf(n + j))
    IN  [param_name       |-> p,
         unpert_param_val |-> Parameters_bas(p),
         random_value     |-> random_value,
         pert_param_val   |-> create_perturbed_parameter_value(
                                  p, random_value, Parameters_bas(p), dist_flag, OutcomeOf(n))]

\* lines 2404-2409: one TMC_Mod_Param_object per key of the dictionary
\* (its constructor exits on a distribution it does not know)
PerturbAllParameters(t, n) ==
    IF dist_flag \notin TMCDistributions THEN Raise(t, "SystemExit_distribution")
    ELSE [t EXCEPT !.list_of_TMC_Mod_Param_objects =
             [j \in 1..Len(dict_unpert_param_name_val) |-> TMC_Mod_Param_object(j, n)]]

\* lines 2402-2426: a worker of the TMC pool takes the next call
TMCInvokeGEF(n) ==
    /\ program_flag = "TMC"
    /\ TMCKey(n) \in DOMAIN trial
    /\ trial[TMCKey(n)].phase = "queued"
    /\ \A m \in 0..(n - 1) : TMCKey(m) \in DOMAIN trial => trial[TMCKey(m)].phase # "queued"
    /\ Cardinality({m \in TrialIndexes : Running(TMCKey(m))}) < max_multithreads_TMC
    /\ LET t == PerturbAllParameters(trial[TMCKey(n)], n)
       IN  trial' = [trial EXCEPT ![TMCKey(n)] = IF t.phase = "raised" THEN t ELSE InvokeGEF(t)]
    /\ UNCHANGED <<wvars, rvars, pvars, lvars, config, pc, reaction, unperturbed_thread, parameter_task, pkl>>

\* lines 2427-2439
TMCReadGEF(n) ==
    /\ TMCKey(n) \in DOMAIN trial
    /\ trial[TMCKey(n)].phase = "gef"
    /\ \E out \in GEF_outputs : trial' = [trial EXCEPT ![TMCKey(n)] = ReadGEF(@, out)]
    /\ UNCHANGED <<wvars, rvars, pvars, lvars, config, pc, reaction, unperturbed_thread, parameter_task, pkl>>

\* lines 2439-2451
TMCReadTALYS(n) ==
    /\ TMCKey(n) \in DOMAIN trial
    /\ trial[TMCKey(n)].phase = "talys"
    /\ \E status \in TALYS_returncodes :
         trial' = [trial EXCEPT ![TMCKey(n)] = ReadTALYS(@, status)]
    /\ UNCHANGED <<wvars, rvars, pvars, lvars, config, pc, reaction, unperturbed_thread, parameter_task, pkl>>

(***************************************************************************)
(* Part IV: the loader McPUFF_Perturbed_Data.__init__ and the user who     *)
(* renames the pickle files (class docstring, lines 73-79).                *)
(***************************************************************************)
\* str.startswith
startswith(name, prefix) ==
    Len(name) >= Len(prefix) /\ SubSeq(name, 1, Len(prefix)) = prefix

TMC_prefix == <<"T", "M", "C">>

Single_prefix == <<"S", "i", "n", "g", "l", "e">>

\* lines 180-189 without line 187
LoadTMC_NoIgnoredEvents(mpd, reac_obj) ==
    [mpd EXCEPT
        !.reaction_info                    = <<reac_obj.reaction_info>>,
        !.dictionary_unpert_param_name_val = <<reac_obj.dictionary_unpert_param_name_val>>,
        !.list_of_Mod_Param_objects        = @ \o reac_obj.list_of_Mod_Param_objects,
        !.list_of_TMC_Objects              = @ \o reac_obj.list_of_TMC_Objects,
        !.program_flag                     = <<reac_obj.program_flag>>,
        !.With_TALYS_flag                  = <<reac_obj.With_TALYS_flag>>,
        !.unperturbed_FY                   = <<reac_obj.unperturbed_FY>>,
        !.unperturbed_GEF_results          = <<reac_obj.unperturbed_GEF_results>>,
        !.unperturbed_TALYS_results        = <<reac_obj.unperturbed_TALYS_results>>]

\* lines 180-189 with the lists replaced, not extended
LoadTMC_Assign(mpd, reac_obj) ==
    [mpd EXCEPT
        !.reaction_info                    = <<reac_obj.reaction_info>>,
        !.dictionary_unpert_param_name_val = <<reac_obj.dictionary_unpert_param_name_val>>,
        !.list_of_Mod_Param_objects        = reac_obj.list_of_Mod_Param_objects,
        !.list_of_TMC_Objects              = reac_obj.list_of_TMC_Objects,
        !.program_flag                     = <<reac_obj.program_flag>>,
        !.With_TALYS_flag                  = <<reac_obj.With_TALYS_flag>>,
        !.unperturbed_FY                   = <<reac_obj.unperturbed_FY>>,
        !.unperturbed_ignored_events       = <<reac_obj.unperturbed_ignored_events>>,
        !.unperturbed_GEF_results          = <<reac_obj.unperturbed_GEF_results>>,
        !.unperturbed_TALYS_results        = <<reac_obj.unperturbed_TALYS_results>>]

\* lines 180-189: a file whose name starts with 'TMC'
LoadTMC(mpd, reac_obj) ==
    [mpd EXCEPT
        !.reaction_info                    = <<reac_obj.reaction_info>>,
        !.dictionary_unpert_param_name_val = <<reac_obj.dictionary_unpert_param_name_val>>,
        !.list_of_Mod_Param_objects        = @ \o reac_obj.list_of_Mod_Param_objects,
        !.list_of_TMC_Objects              = @ \o reac_obj.list_of_TMC_Objects,
        !.program_flag                     = <<reac_obj.program_flag>>,
        !.With_TALYS_flag                  = <<reac_obj.With_TALYS_flag>>,
        !.unperturbed_FY                   = <<reac_obj.unperturbed_FY>>,
        !.unperturbed_ignored_events       = <<reac_obj.unperturbed_ignored_events>>,
        !.unperturbed_GEF_results          = <<reac_obj.unperturbed_GEF_results>>,
        !.unperturbed_TALYS_results        = <<reac_obj.unperturbed_TALYS_results>>]

\* line 199: a file whose name starts with 'Single'
LoadSingle(mpd, reac_obj) ==
    [mpd EXCEPT !.list_of_Reac_objects = Append(@, reac_obj)]

\* The user renames a finished pickle file so that its name starts with
\* 'TMC' or 'Single'.
RenamePickle(name, prefix) ==
    /\ lpc = "idle"
    /\ name \in DOMAIN PKL_path
    /\ ~startswith(name, TMC_prefix)
    /\ ~startswith(name, Single_prefix)
    /\ (prefix \o <<"_">> \o name) \notin DOMAIN PKL_path
    /\ PKL_path' = [f \in ((DOMAIN PKL_path) \ {name}) \cup {prefix \o <<"_">> \o name} |->
                       IF f \in DOMAIN PKL_path /\ f # name THEN PKL_path[f] ELSE PKL_path[name]]
    /\ UNCHANGED <<wvars, rvars, cvars, pvars, MPD, scandir, lpc>>

\* lines 167-170: the three lists are created and os.scandir starts to hand
\* out the entries of PKL_path, in an order of its own
StartLoading ==
    /\ lpc = "idle"
    /\ pc \in {"done", "none"}
    /\ MPD' = NewMPD
    /\ scandir' \in Orders(DOMAIN PKL_path)
    /\ lpc' = IF DOMAIN PKL_path = {} THEN "loaded" ELSE "scanning"
    /\ UNCHANGED <<wvars, rvars, cvars, pvars, PKL_path>>

\* lines 170-203: one turn of the loop
ScanEntry ==
    /\ lpc = "scanning"
    /\ LET file_name == Head(scandir)
           entry     == PKL_path[file_name]
           more      == IF Len(scandir) > 1 THEN "scanning" ELSE "loaded"
       IN  IF entry.is_file /\ startswith(file_name, TMC_prefix)
           THEN MPD' = LoadTMC(MPD, entry.obj) /\ lpc' = more
           ELSE IF entry.is_file /\ startswith(file_name, Single_prefix)
           THEN MPD' = LoadSingle(MPD, entry.obj) /\ lpc' = more
           ELSE lpc' = "exited" /\ UNCHANGED MPD
    /\ scandir' = Tail(scandir)
    /\ UNCHANGED <<wvars, rvars, cvars, pvars, PKL_path>>

Next ==
    \/ StartUnperturbedThread
    \/ SubmitParameterTasks
    \/ SubmitTMCTasks
    \/ IncorrectProgramFlag
    \/ ShutdownPool
    \/ \E f \in SubmittedFutures : CollectResult(f)
    \/ JoinUnperturbedThread
    \/ PickleResults
    \/ UnperturbedInvokeGEF
    \/ UnperturbedReadGEF
    \/ UnperturbedReadTALYS
    \/ \E p \in Parameters : StartParameterTask(p)
    \/ \E p \in Parameters : FinishParameterTask(p)
    \/ \E p \in Parameters, n \in TrialIndexes : PerturbedInvokeGEF(p, n)
    \/ \E p \in Parameters, n \in TrialIndexes : PerturbedReadGEF(p, n)
    \/ \E p \in Parameters, n \in TrialIndexes : PerturbedReadTALYS(p, n)
    \/ \E n \in TrialIndexes : TMCInvokeGEF(n)
    \/ \E n \in TrialIndexes : TMCReadGEF(n)
    \/ \E n \in TrialIndexes : TMCReadTALYS(n)
    \/ \E name \in DOMAIN PKL_path, prefix \in {TMC_prefix, Single_prefix} :
           RenamePickle(name, prefix)
    \/ StartLoading
    \/ ScanEntry

Spec == Init /\ [][Next]_vars

(***************************************************************************)
(* Names of the working state of a trial.  Strings are sequences of        *)
(* characters so that concatenation and str.lower() are computed.          *)
(***************************************************************************)
MaxIndex == 11

\* The characters of the parameter names
Chars(name) ==
    CASE name = "SIGDEFO"   -> <<"S", "I", "G", "D", "E", "F", "O">>
      [] name = "SIGDEFO_0" -> <<"S", "I", "G", "D", "E", "F", "O", "_", "0">>
      [] name = "kappa"     -> <<"k", "a", "p", "p", "a">>

UpperCase == 
    <<"A", "B", "C", "D", "E", "F", "G", "H", "I", "J", "K", "L", "M", "N", "O", "P", "Q", "R", "S", "T", "U", "V", "W", "X", "Y", "Z">>

LowerCase == 
    <<"a", "b", "c", "d", "e", "f", "g", "h", "i", "j", "k", "l", "m", "n", "o", "p", "q", "r", "s", "t", "u", "v", "w", "x", "y", "z">>

\* str.lower()
lower(s) ==
    [i \in 1..Len(s) |->
        IF \E j \in 1..Len(UpperCase) : UpperCase[j] = s[i]
        THEN LowerCase[CHOOSE j \in 1..Len(UpperCase) : UpperCase[j] = s[i]]
        ELSE s[i]]

\* an ID that leaves the index out
ParamID_NoIndex(p, n) == <<"P", "a", "r", "a", "m", "_">> \o Chars(p)

\* create_perturbed_FY line 2258: f'Param_{param_name}_{enumeration_rand_num}'
ParamID(p, n) == <<"P", "a", "r", "a", "m", "_">> \o Chars(p) \o <<"_">> \o str(n)

\* create_perturbed_TMC_FY line 2402: f'TMC_{enumeration_rand_num}'
TMCID(n) == <<"T", "M", "C", "_">> \o str(n)

\* create_unperturbed_FY line 519
UnperturbedID == <<"U", "n", "p", "e", "r", "t", "u", "r", "b", "e", "d", "_", "P", "a", "r", "a", "m">>

unique_thread_ID(k) ==
    CASE k[1] = "Unperturbed" -> UnperturbedID
      [] k[1] = "Param"       -> ParamID(k[2], k[3])
      [] k[1] = "TMC"         -> TMCID(k[3])

\* create_GEF_workingdir_and_inputfile lines 1099-1104: f'GEF_{unique_param_ID}'
GEF_cwd(k) == <<"G", "E", "F", "_">> \o unique_thread_ID(k)

\* TALYS_input_path + ID, with TALYS_input_path ending in 'TALYS_folder_' (line 415)
TALYS_cwd(k) == <<"T", "A", "L", "Y", "S", "_", "f", "o", "l", "d", "e", "r", "_">> \o unique_thread_ID(k)

\* f'{ID}_input.in' (lines 540, 2285, 2433)
TALYS_input_file(k) == unique_thread_ID(k) \o <<"_", "i", "n", "p", "u", "t", ".", "i", "n">>

\* print_TALYS_ff_files line 1328, for the energies '6' and '7' of energy_val;
\* element and mass number in front are those of the campaign
ff_file_names(k) ==
    {<<e>> \o <<".", "0", "0", "e", "+", "0", "0", "M", "e", "V", "_", "g", "e", "f", "_">> \o lower(unique_thread_ID(k)) \o <<".", "f", "f">> : e \in {"6", "7"}}

(***************************************************************************)
(* Claims about the campaign (specification Spec).                         *)
(***************************************************************************)
\* The Parameter Groups of a Reaction object: one per parameter, each with
\* one entry per requested trial index.
GroupsComplete(obj) ==
    LET groups == obj.list_of_Mod_Param_objects
    IN  /\ Len(groups) = Len(dict_unpert_param_name_val)
        /\ \A p \in Parameters :
               Cardinality({i \in 1..Len(groups) : groups[i].param_name = p}) = 1
        /\ \A i \in 1..Len(groups) :
               LET entries == groups[i].list_of_Random_Parameter_Value_objects
               IN  /\ Len(entries) = number_of_randoms
                   /\ \A n \in 0..(number_of_randoms - 1) :
                          Cardinality({j \in 1..Len(entries) :
                                          entries[j].enumeration_rand_num = n}) = 1

\* C6: a parameter-at-a-time campaign with P parameters and N requested
\* trials (uniform or normal distribution) that reaches its end holds, and
\* persists, exactly P Parameter Groups, one per parameter, each with
\* exactly N trial entries, whatever the interleaving and completion order
\* of the worker tasks was; every group already has its N entries when its
\* task returns it.
C6_TrialCountSingle ==
    (program_flag = "Single_Parameters" /\ dist_flag \in {"uniform", "normal"})
    => /\ \A p \in DOMAIN parameter_task :
              parameter_task[p].state = "returned" =>
                  Len(parameter_task[p].list_of_Random_Parameter_Value_objects)
                      = number_of_randoms
       /\ pc \in {"joined", "done"} => GroupsComplete(reaction)
       /\ pc = "done" => GroupsComplete(pkl[1])

\* A finished campaign with the most parameters and trials of the model,
\* whose groups and entries were collected against the submission order.
C6_Witness ==
    /\ program_flag = "Single_Parameters"
    /\ dist_flag = "normal"
    /\ pc = "done"
    /\ Len(dict_unpert_param_name_val) = MaxParams
    /\ number_of_randoms = MaxRandoms
    /\ pkl[1].list_of_Mod_Param_objects[1].param_name = dict_unpert_param_name_val[2]
    /\ pkl[1].list_of_Mod_Param_objects[1].list_of_Random_Parameter_Value_objects[1]
           .enumeration_rand_num = 1

\* The trial objects of a Reaction object in TMC mode
TMCComplete(obj) ==
    LET objs == obj.list_of_TMC_Objects
    IN  /\ Len(objs) = number_of_randoms
        /\ \A n \in 0..(number_of_randoms - 1) :
               Cardinality({i \in 1..Len(objs) : objs[i].enumeration_rand_val = n}) = 1
        /\ \A i \in 1..Len(objs) :
               /\ Len(objs[i].perturbed_FY) = 1
               /\ Len(objs[i].list_of_TMC_Mod_Param_objects) = Len(dict_unpert_param_name_val)
               /\ \A j \in 1..Len(dict_unpert_param_name_val) :
                      objs[i].list_of_TMC_Mod_Param_objects[j].param_name =
                          dict_unpert_param_name_val[j]

\* C7: a TMC campaign with N requested trials and P parameters that reaches
\* its end holds, and persists, exactly N trial objects, one per index
\* 0..N-1, each with one simulation outcome and P perturbed-value records,
\* one for every parameter of the dictionary.
C7_TrialCountTMC ==
    (program_flag = "TMC" /\ pc \in {"joined", "done"})
    => /\ TMCComplete(reaction)
       /\ pc = "done" => TMCComplete(pkl[1])

\* A finished TMC campaign with the most trials and parameters of the
\* model, the later trial collected first.
C7_Witness ==
    /\ program_flag = "TMC"
    /\ pc = "done"
    /\ number_of_randoms = MaxRandoms
    /\ Len(dict_unpert_param_name_val) = MaxParams
    /\ pkl[1].list_of_TMC_Objects[1].enumeration_rand_val = 1

\* Every key a trial can have: the baseline, every parameter name with
\* every index up to MaxIndex, every TMC index up to MaxIndex.
AllKeys ==
    {UnperturbedKey}
        \cup {ParamKey(ParameterNames[i], n) : i \in 1..Len(ParameterNames), n \in 0..MaxIndex}
        \cup {TMCKey(n) : n \in 0..MaxIndex}

\* Distinct keys have distinct IDs, also once lower-cased.
IDsInjective ==
    /\ Cardinality({unique_thread_ID(k) : k \in AllKeys}) = Cardinality(AllKeys)
    /\ Cardinality({lower(unique_thread_ID(k)) : k \in AllKeys}) = Cardinality(AllKeys)

\* Two trials share no name of their working state.
Isolated(k1, k2) ==
    /\ GEF_cwd(k1) # GEF_cwd(k2)
    /\ TALYS_cwd(k1) # TALYS_cwd(k2)
    /\ TALYS_input_file(k1) # TALYS_input_file(k2)
    /\ ff_file_names(k1) \cap ff_file_names(k2) = {}

\* Any two different keys give different working state.
KeysIsolated == \A k1, k2 \in AllKeys : k1 # k2 => Isolated(k1, k2)

\* C8: at every point of a campaign the trials that exist side by side
\* (baseline, single-parameter trials, TMC trials) have keys whose GEF
\* working directories, TALYS working directories, input-deck names and
\* ".ff" file names all differ; and distinct (parameter, index) pairs give
\* distinct IDs, also after the lower-casing used for the ".ff" file names.
C8_WorkingStateIsolation ==
    /\ DOMAIN trial \subseteq AllKeys
    /\ KeysIsolated
    /\ IDsInjective

\* The baseline and trial 0 of SIGDEFO_0 are in TALYS while both trials of
\* SIGDEFO are in GEF.
C8_Witness ==
    /\ {UnperturbedKey, ParamKey("SIGDEFO", 0), ParamKey("SIGDEFO", 1),
        ParamKey("SIGDEFO_0", 0)} \subseteq DOMAIN trial
    /\ trial[UnperturbedKey].phase = "talys"
    /\ trial[ParamKey("SIGDEFO_0", 0)].phase = "talys"
    /\ trial[ParamKey("SIGDEFO", 0)].phase = "gef"
    /\ trial[ParamKey("SIGDEFO", 1)].phase = "gef"

\* A trial ended because GEF could not be started or left no usable output.
ToolFailure(t) == t.phase = "raised" /\ t.exc \in {"FileNotFoundError", "SystemExit"}

\* C9: if a trial, the baseline included, ended in a fatal failure of the
\* generator (executable missing, output file missing or empty), the
\* Reaction object is never pickled; no file is pickled whose baseline
\* result is unset.
C9_NoPersistenceAfterToolFailure ==
    pkl # <<>> =>
        /\ \A k \in DOMAIN trial : ~ToolFailure(trial[k])
        /\ pkl[1].unperturbed_FY # <<>>

\* What does hold: a failed perturbed trial ends the process before the
\* pickle is written.
C9_PerturbedFailureNotPersisted ==
    pkl # <<>> =>
        /\ \A k \in (DOMAIN trial) \ {UnperturbedKey} : trial[k].phase # "raised"
        /\ \A p \in DOMAIN parameter_task : parameter_task[p].state # "raised"

\* The talys command of a trial was not found or exited with non-zero status.
EvaporationFailed(t) == t.returncode # <<>> /\ t.returncode[1] # 0

\* A stored result of a trial whose GEF stage succeeded and whose TALYS
\* stage, though enabled, left nothing.
EmptyEvaporation(gef_results, talys_results) ==
    with_TALYS /\ gef_results = "GEF_data" /\ talys_results = "{}"

\* C10: a trial whose talys command was not found or exited non-zero does
\* not return as a successful result, and no Reaction object is pickled
\* that holds a result with empty TALYS data.
C10_EvaporationFailureAborts ==
    /\ \A k \in DOMAIN trial : EvaporationFailed(trial[k]) => trial[k].phase # "returned"
    /\ pkl # <<>> =>
          /\ ~EmptyEvaporation(pkl[1].unperturbed_GEF_results, pkl[1].unperturbed_TALYS_results)
          /\ \A i \in 1..Len(pkl[1].list_of_TMC_Objects) :
                 ~EmptyEvaporation(pkl[1].list_of_TMC_Objects[i].perturbed_GEF_results,
                                   pkl[1].list_of_TMC_Objects[i].perturbed_TALYS_results)
          /\ \A i \in 1..Len(pkl[1].list_of_Mod_Param_objects) :
                 LET entries == pkl[1].list_of_Mod_Param_objects[i]
                                    .list_of_Random_Parameter_Value_objects
                 IN  \A j \in 1..Len(entries) :
                        ~EmptyEvaporation(entries[j].perturbed_GEF_results,
                                          entries[j].perturbed_TALYS_results)


(***************************************************************************)
(* C11, C12: the distribution flag and the trial count.                    *)
(***************************************************************************)
\* The distribution flag is one the constructor of the selected mode rejects
\* (Modified_Parameter.__init__ line 2026, TMC_Mod_Param_object.__init__
\* line 2717).
DistributionUnusable ==
    \/ program_flag = "Single_Parameters" /\ dist_flag \notin SingleParameterDistributions
    \/ program_flag = "TMC" /\ dist_flag \notin TMCDistributions

\* Some constructor has rejected the distribution flag.
DistributionRejected ==
    \/ \E p \in DOMAIN parameter_task : parameter_task[p].exc = "SystemExit_distribution"
    \/ \E k \in DOMAIN trial : trial[k].exc = "SystemExit_distribution"

\* C11: in a campaign whose distribution flag is unknown, or not usable in
\* the selected mode, no trial, the baseline included, is ever started and
\* none invokes GEF: the campaign aborts before.
C11_ConfigurationErrorPrecedesTrials ==
    DistributionUnusable =>
        /\ unperturbed_thread.state = "initial"
        /\ \A k \in DOMAIN trial : trial[k].phase \in {"queued", "raised"}

\* What does hold: no perturbed trial invokes GEF and nothing is pickled;
\* the baseline thread runs from line 250 on, whatever the flag.
C11_NoPerturbedTrialRuns ==
    DistributionUnusable =>
        /\ \A k \in (DOMAIN trial) \ {UnperturbedKey} : trial[k].phase \in {"queued", "raised"}
        /\ \A p \in DOMAIN parameter_task : parameter_task[p].state \in {"queued", "raised"}
        /\ pkl = <<>>

\* The baseline has run GEF and returned when the flag is rejected.
C11_BaselineRanBeforeRejection ==
    ~(/\ DistributionRejected
      /\ UnperturbedKey \in DOMAIN trial
      /\ trial[UnperturbedKey].phase = "returned")

\* C12: a max-min campaign whose number_of_randoms differs from the length
\* of the scale-factor list is rejected and never completes: a pickled
\* max-min campaign was requested with the length of the list as its count
\* and holds number_of_randoms trials for every parameter.
C12_MaxMinCountChecked ==
    (program_flag = "Single_Parameters" /\ dist_flag = "max-min" /\ pkl # <<>>) =>
        /\ number_of_randoms = Cardinality(RandNumIndexes)
        /\ \A i \in 1..Len(pkl[1].list_of_Mod_Param_objects) :
              Len(pkl[1].list_of_Mod_Param_objects[i].list_of_Random_Parameter_Value_objects)
                  = number_of_randoms


(***************************************************************************)
(* Part III: specification SpecPerturber.  A Modified_Parameter object is  *)
(* constructed (the sampler draws a magnitude from the nominal value of    *)
(* run 1) and create_perturbed_parameter_value is applied in two runs that *)
(* share parameter name, distribution, magnitude and generator outcome and *)
(* have a nominal value each.                                              *)
(***************************************************************************)
\* Nominal values a line of Parameters.bas can hold
Nominals == {Zero, <<165, 3>>, <<-45, 1>>, <<4, 10>>, <<-4, 10>>, <<1, 9>>}

PInit ==
    /\ NoReducerRun
    /\ NoCampaign
    /\ NoLoaderRun
    /\ NoWorkingDirRun
    /\ param_name \in {ParameterNames[j] : j \in 1..Len(ParameterNames)}
    /\ distribution_flag \in DistributionFlags
    /\ unpert_param_val \in Nominals \X Nominals
    /\ rand_num = <<>>
    /\ pert_param_val = <<>>
    /\ ppc = "constructed"

\* Modified_Parameter.__init__ lines 2010-2028: one element of list_of_rand_num
Sample(i) ==
    /\ ppc = "constructed"
    /\ CASE distribution_flag = "uniform" ->
              rand_num' = <<uniform_rand_num(unpert_param_val[1], i)>> /\ ppc' = "sampled"
         [] distribution_flag = "normal" ->
              rand_num' = <<normal_rand_num(param_name, unpert_param_val[1], i)>> /\ ppc' = "sampled"
         [] distribution_flag = "max-min" ->
              /\ i \in 1..Len(max_min_list_of_rand_num)
              /\ rand_num' = <<max_min_list_of_rand_num[i]>>
              /\ ppc' = "sampled"
         [] OTHER -> ppc' = "exited" /\ UNCHANGED rand_num
    /\ UNCHANGED <<wvars, rvars, cvars, lvars, param_name, distribution_flag, unpert_param_val, pert_param_val>>

\* create_perturbed_parameter_value, called in both runs
Perturb(i) ==
    /\ ppc = "sampled"
    /\ pert_param_val' =
         <<create_perturbed_parameter_value(param_name, rand_num[1], unpert_param_val[1], distribution_flag, i),
           create_perturbed_parameter_value(param_name, rand_num[1], unpert_param_val[2], distribution_flag, i)>>
    /\ ppc' = "perturbed"
    /\ UNCHANGED <<wvars, rvars, cvars, lvars, param_name, distribution_flag, unpert_param_val, rand_num>>

PNext ==
    \/ \E i \in Outcomes : Sample(i)
    \/ \E i \in Outcomes : Perturb(i)

SpecPerturber == PInit /\ [][PNext]_vars

(***************************************************************************)
(* Claims about the perturber (specification SpecPerturber).               *)
(***************************************************************************)
\* An ordinary parameter with a non-zero nominal value has been perturbed
\* under uniform sampling (run 1).
UniformOrdinaryPerturbed ==
    /\ ppc = "perturbed"
    /\ distribution_flag = "uniform"
    /\ param_name \in {"SIGDEFO", "SIGDEFO_0"}
    /\ unpert_param_val[1] # Zero

\* C16 as stated: under uniform sampling the perturbed value of an ordinary
\* parameter with a non-zero nominal value has the sign of the nominal
\* value, for every magnitude the sampler produces.
C16_SignAsStated ==
    UniformOrdinaryPerturbed => Sign(pert_param_val[1]) = Sign(unpert_param_val[1])

\* C16: under uniform sampling the perturbed value of an ordinary parameter
\* with a non-zero nominal value has the sign of the nominal value whenever
\* the magnitude does not round to zero at nine decimals, and is zero
\* otherwise; it never has the opposite sign.
C16_SignPreserved ==
    UniformOrdinaryPerturbed =>
        IF round(rand_num[1], 9) = Zero
        THEN pert_param_val[1] = Zero
        ELSE Sign(pert_param_val[1]) = Sign(unpert_param_val[1])

\* A negative nominal value has given a negative perturbed value.
C16_Witness ==
    /\ UniformOrdinaryPerturbed
    /\ Sign(unpert_param_val[1]) = -1
    /\ round(rand_num[1], 9) # Zero
    /\ Sign(pert_param_val[1]) = -1

\* The special-case parameter of the three has been perturbed in two runs.
SpecialPerturbed ==
    /\ ppc = "perturbed"
    /\ param_name = "kappa"
    /\ distribution_flag \in SingleParameterDistributions

\* C17: for a special-case parameter and each of uniform, normal and
\* max-min the perturbed value does not depend on the nominal value: the two
\* runs return the same value; under uniform it lies in [-0.5, 0.5], under
\* max-min it is the magnitude minus 1.
C17_IndependentOfNominal ==
    SpecialPerturbed =>
        /\ pert_param_val[1] = pert_param_val[2]
        /\ distribution_flag = "uniform" =>
              /\ Sign(Add(pert_param_val[1], <<5, 1>>)) >= 0
              /\ Sign(Add(<<5, 1>>, Neg(pert_param_val[1]))) >= 0
        /\ distribution_flag = "max-min" =>
              pert_param_val[1] = Add(rand_num[1], Neg(One))

\* Two runs with different nominal values have returned 1.5 - 1 under max-min.
C17_Witness ==
    /\ SpecialPerturbed
    /\ distribution_flag = "max-min"
    /\ unpert_param_val[1] # unpert_param_val[2]
    /\ unpert_param_val[1] # Zero
    /\ pert_param_val = << <<5, 1>>, <<5, 1>> >>


(***************************************************************************)
(* Specification SpecLoader: a pickle directory with batch files of        *)
(* earlier campaigns is loaded.  The campaign variables hold the           *)
(* configuration of the TMC campaigns that wrote the files.                *)
(***************************************************************************)
MaxFiles == 2

\* A second table with a split that occurs twice.
ShiftedTable == << <<1, 2, 2, 2, 1, 1, 1>>, <<1, 2, 2, 2, 1, 1, 1>> >>

\* GEF runs that leave both files behind
GoodOutputs ==
    {[lmd_exists |-> TRUE, lmd_rows |-> tab, dat_exists |-> TRUE] : tab \in {RepeatsTable, ShiftedTable}}

\* The call of create_unperturbed_FY that read the output out
BaselineReturned(out) == ReadGEF(InvokeGEF(NewCall), out)

\* What a successful call of a trial executor can leave in its record
GoodReturns == {BaselineReturned(out) : out \in GoodOutputs}

\* Trial n of create_perturbed_TMC_FY whose GEF run left what the call b read
TMCReturned(n, b) ==
    [b EXCEPT !.list_of_TMC_Mod_Param_objects =
                  PerturbAllParameters(NewCall, n).list_of_TMC_Mod_Param_objects]

\* The Reaction object a TMC campaign of N trials pickles (lines 269-294)
TMCBatch(N, b) ==
    [NewReaction EXCEPT
        !.list_of_TMC_Objects        = [j \in 1..N |-> TMC_Object(j - 1, TMCReturned(j - 1, b))],
        !.unperturbed_FY             = b.perturbed_FY,
        !.unperturbed_ignored_events = b.ignored_events,
        !.unperturbed_GEF_results    = b.perturbed_GEF_results,
        !.unperturbed_TALYS_results  = b.perturbed_TALYS_results,
        !.reaction_info.num_of_rand  = N]

\* The Reaction object a Single_Parameters campaign of one trial per
\* parameter pickles (lines 254-267, 286-294)
SingleBatch(b) ==
    [NewReaction EXCEPT
        !.program_flag               = "Single_Parameters",
        !.list_of_Mod_Param_objects  =
            [j \in 1..Len(dict_unpert_param_name_val) |->
                [param_name |-> dict_unpert_param_name_val[j],
                 list_of_Random_Parameter_Value_objects |->
                     <<Random_Parameter_value(dict_unpert_param_name_val[j], 0, b)>>]],
        !.unperturbed_FY             = b.perturbed_FY,
        !.unperturbed_ignored_events = b.ignored_events,
        !.unperturbed_GEF_results    = b.perturbed_GEF_results,
        !.unperturbed_TALYS_results  = b.perturbed_TALYS_results,
        !.reaction_info.num_of_rand  = 1]

\* Pickled objects of the reaction, of another target, and of the other mode
BatchObjects(returns) ==
    {TMCBatch(N, b) : N \in 1..MaxRandoms, b \in returns}
        \cup {[TMCBatch(1, b) EXCEPT !.reaction_info.Z_target = CampaignTarget + 1] :
                  b \in returns}
        \cup {SingleBatch(b) : b \in returns}

\* Directory entries: pickle files and a subdirectory
Entries(objects) ==
    {[is_file |-> TRUE, obj |-> o] : o \in objects}
        \cup {[is_file |-> FALSE, obj |-> NewReaction]}

FileNames ==
    {TMC_prefix \o <<"_", "1">>, TMC_prefix \o <<"_", "2">>, TMC_prefix \o <<"_", "3">>,
     Single_prefix \o <<"_", "1">>, PickleFileName}

\* The names of the entries of a directory
DirectoryListings == {T \in SUBSET FileNames : Cardinality(T) <= MaxFiles}

LInit ==
    /\ NoReducerRun
    /\ NoPerturberRun
    /\ NoWorkingDirRun
    /\ program_flag = "TMC"
    /\ dist_flag = "uniform"
    /\ with_TALYS = FALSE
    /\ number_of_randoms = MaxRandoms
    /\ dict_unpert_param_name_val = SubSeq(ParameterNames, 1, 1)
    /\ cpu_count = 8
    /\ PATH = Executables
    /\ pc = "none"
    /\ reaction = NewReaction
    /\ unperturbed_thread = NewCustomThread
    /\ parameter_task = <<>>
    /\ trial = <<>>
    /\ pkl = <<>>
    /\ \E entries \in {Entries(BatchObjects(GoodReturns))} :
          \E S \in DirectoryListings : PKL_path \in [S -> entries]
    /\ MPD = NewMPD
    /\ scandir = <<>>
    /\ lpc = "idle"

LNext ==
    \/ \E name \in DOMAIN PKL_path, prefix \in {TMC_prefix, Single_prefix} :
           RenamePickle(name, prefix)
    \/ StartLoading
    \/ ScanEntry

SpecLoader == LInit /\ [][LNext]_vars

(***************************************************************************)
(* Claims about the loader.                                                *)
(***************************************************************************)
\* The loader's own fields hold what the Reaction object obj holds.
ReproducedInFields(obj) ==
    /\ MPD.list_of_TMC_Objects = obj.list_of_TMC_Objects
    /\ MPD.list_of_Mod_Param_objects = obj.list_of_Mod_Param_objects
    /\ MPD.unperturbed_FY = <<obj.unperturbed_FY>>
    /\ MPD.unperturbed_ignored_events = <<obj.unperturbed_ignored_events>>
    /\ MPD.unperturbed_GEF_results = <<obj.unperturbed_GEF_results>>
    /\ MPD.unperturbed_TALYS_results = <<obj.unperturbed_TALYS_results>>
    /\ MPD.reaction_info = <<obj.reaction_info>>
    /\ MPD.dictionary_unpert_param_name_val = <<obj.dictionary_unpert_param_name_val>>

\* The loader holds the Reaction object obj itself, as the one element of
\* list_of_Reac_objects.
ReproducedAsObject(obj) == MPD.list_of_Reac_objects = <<obj>>

\* C13 as stated: loading the directory with the file Reaction wrote, under
\* the name Reaction gave it, ends with the campaign's trials, baseline and
\* perturbed values in the loader object.
C13_RoundTripAsStated ==
    (pc = "done" /\ lpc \in {"loaded", "exited"} /\ DOMAIN PKL_path = {PickleFileName}) =>
        /\ lpc = "loaded"
        /\ ReproducedInFields(pkl[1]) \/ ReproducedAsObject(pkl[1])

\* C13: once the file Reaction wrote has been renamed to start with 'TMC'
\* or 'Single', loading it reproduces the persisted campaign, in both modes:
\* under a 'TMC' name the loader's fields hold the campaign's trial lists,
\* baseline and definitions, under a 'Single' name list_of_Reac_objects
\* holds the persisted object; the loader finishes only for such a name.
C13_RoundTrip ==
    (pc = "done" /\ lpc = "loaded") =>
        \A f \in DOMAIN PKL_path :
            /\ f # PickleFileName
            /\ IF startswith(f, TMC_prefix)
               THEN ReproducedInFields(pkl[1]) /\ MPD.list_of_Reac_objects = <<>>
               ELSE ReproducedAsObject(pkl[1])

\* A TMC campaign of two trials with a baseline has been loaded back.
C13_Witness ==
    /\ pc = "done"
    /\ lpc = "loaded"
    /\ program_flag = "TMC"
    /\ Len(MPD.list_of_TMC_Objects) = 2
    /\ MPD.unperturbed_FY # << <<>> >>
    /\ \A j \in 1..2 :
          MPD.list_of_TMC_Objects[j].list_of_TMC_Mod_Param_objects[1].pert_param_val
              = pkl[1].list_of_TMC_Objects[j].list_of_TMC_Mod_Param_objects[1].pert_param_val

\* A Single_Parameters campaign has been loaded back under a 'Single' name.
C13_WitnessSingle ==
    /\ pc = "done"
    /\ lpc = "loaded"
    /\ program_flag = "Single_Parameters"
    /\ Len(MPD.list_of_Reac_objects) = 1
    /\ Len(MPD.list_of_Reac_objects[1].list_of_Mod_Param_objects) = 2

\* The entries the loader merges into its own fields
TMCFiles == {f \in DOMAIN PKL_path : PKL_path[f].is_file /\ startswith(f, TMC_prefix)}

\* The trial lists of the files o[1], o[2], ... one after the other
RECURSIVE ConcatTMC(_)
ConcatTMC(o) ==
    IF o = <<>> THEN <<>>
    ELSE PKL_path[Head(o)].obj.list_of_TMC_Objects \o ConcatTMC(Tail(o))

RECURSIVE TrialCount(_)
TrialCount(S) ==
    IF S = {} THEN 0
    ELSE LET f == CHOOSE g \in S : TRUE
         IN  Len(PKL_path[f].obj.list_of_TMC_Objects) + TrialCount(S \ {f})

\* C14: a loaded directory gives one aggregate whose list_of_TMC_Objects is
\* the concatenation of the trial lists of its 'TMC' files, in the order
\* the files were scanned: its length is the sum of their trial counts.
C14_BatchMerge ==
    lpc = "loaded" =>
        /\ \E o \in Orders(TMCFiles) : MPD.list_of_TMC_Objects = ConcatTMC(o)
        /\ Len(MPD.list_of_TMC_Objects) = TrialCount(TMCFiles)

\* Two batch files of one and two trials have been merged.
C14_Witness ==
    /\ lpc = "loaded"
    /\ pc = "none"
    /\ Cardinality(TMCFiles) = 2
    /\ \E f, g \in TMCFiles :
          /\ Len(PKL_path[f].obj.list_of_TMC_Objects) = 1
          /\ Len(PKL_path[g].obj.list_of_TMC_Objects) = 2
    /\ Len(MPD.list_of_TMC_Objects) = 3

\* The fields the files of one reaction share
Consistent(a, b) ==
    /\ a.reaction_info.Z_target = b.reaction_info.Z_target
    /\ a.reaction_info.A_compound = b.reaction_info.A_compound
    /\ a.dictionary_unpert_param_name_val = b.dictionary_unpert_param_name_val
    /\ a.unperturbed_FY = b.unperturbed_FY

\* The files of TMC campaigns among the merged ones
TMCBatchFiles == {f \in TMCFiles : PKL_path[f].obj.program_flag = "TMC"}

\* C15: batch files are merged only when their reaction info, parameter
\* definitions and baseline agree: a loaded aggregate never holds the
\* trials of two TMC batch files that differ in them.
C15_MergeVerified ==
    lpc = "loaded" =>
        \A f, g \in TMCBatchFiles : Consistent(PKL_path[f].obj, PKL_path[g].obj)

\* What does hold: the aggregate carries the fields of the file scanned last.
C15_FieldsOfOneFile ==
    (lpc = "loaded" /\ TMCFiles # {}) =>
        \E f \in TMCFiles :
            /\ MPD.reaction_info = <<PKL_path[f].obj.reaction_info>>
            /\ MPD.unperturbed_FY = <<PKL_path[f].obj.unperturbed_FY>>

(***************************************************************************)
(* C18: data-quality conditions of the raw table (SpecReducer).            *)
(***************************************************************************)
\* no split occurs twice among the events that pass the mass check
NothingRetained == \A k \in CountedSplits : Occurrences(k) <= 1

\* C18: for every non-empty raw event table, also one in which every split
\* occurs once and one in which every event is a multi-chance event, the
\* reducer returns normally: the summary has one row per split that occurs at
\* least twice (none when nothing is retained) and the singleton count is the
\* number of splits occurring once.
C18_DataQualityNeverFails ==
    (Called /\ lmdData # <<>> /\ WithinCapacity) =>
        /\ result1.status = "ok"
        /\ Len(result1.FY_TALYS) = Cardinality({k \in CountedSplits : Occurrences(k) > 1})
        /\ result1.ignored_events = Cardinality({k \in CountedSplits : Occurrences(k) = 1})

\* What the code does: the reducer fails exactly on the tables of which
\* nothing is retained, and then with UnboundLocalError.
C18_FailsWhenNothingRetained ==
    (Called /\ WithinCapacity) =>
        /\ (result1.status = "ok") = ~NothingRetained
        /\ NothingRetained => result1.status = "UnboundLocalError"

(***************************************************************************)
(* C19: finalization order of the campaign (Spec).                         *)
(***************************************************************************)
\* every submitted perturbed trial has returned and its result is in obj
AllTrialsAppended(obj) ==
    /\ \A k \in DOMAIN trial : k # UnperturbedKey => trial[k].phase = "returned"
    /\ IF program_flag = "Single_Parameters"
       THEN /\ \A p \in Parameters :
                  /\ p \in DOMAIN parameter_task
                  /\ parameter_task[p].state = "returned"
                  /\ \E i \in 1..Len(obj.list_of_Mod_Param_objects) :
                        /\ obj.list_of_Mod_Param_objects[i].param_name = p
                        /\ obj.list_of_Mod_Param_objects[i].list_of_Random_Parameter_Value_objects
                             = parameter_task[p].list_of_Random_Parameter_Value_objects
            /\ Len(obj.list_of_Mod_Param_objects) = Len(dict_unpert_param_name_val)
       ELSE /\ \A n \in TMCIndexes :
                  /\ TMCKey(n) \in DOMAIN trial
                  /\ \E i \in 1..Len(obj.list_of_TMC_Objects) :
                        obj.list_of_TMC_Objects[i] = TMC_Object(n, trial[TMCKey(n)])
            /\ Len(obj.list_of_TMC_Objects) = number_of_randoms

\* the baseline thread has ended and obj holds its four result fields
BaselineJoinedAndCopied(obj) ==
    /\ unperturbed_thread.state \in {"finished", "died"}
    /\ Terminal(UnperturbedKey)
    /\ obj.unperturbed_FY = unperturbed_thread.unperturbed_FY
    /\ obj.unperturbed_ignored_events = unperturbed_thread.unperturbed_ignored_events
    /\ obj.unperturbed_GEF_results = unperturbed_thread.unperturbed_GEF_results
    /\ obj.unperturbed_TALYS_results = unperturbed_thread.unperturbed_TALYS_results

\* C19: the campaign object is persisted only after every submitted
\* perturbed trial has completed and its result has been appended, and after
\* the baseline thread has been joined and its four result fields copied;
\* the baseline takes no slot of either pool.
C19_FinalizationOrder ==
    /\ pkl # <<>> => (AllTrialsAppended(pkl[1]) /\ BaselineJoinedAndCopied(pkl[1]))
    /\ UnperturbedKey \notin {TMCKey(n) : n \in TrialIndexes}
    /\ UnperturbedKey \notin {ParamKey(p, n) : p \in Parameters, n \in TrialIndexes}
    /\ Cardinality({n \in TrialIndexes : Running(TMCKey(n))}) <= max_multithreads_TMC
    /\ \A p \in Parameters :
          Cardinality({n \in TrialIndexes : Running(ParamKey(p, n))})
              <= simultaneous_threads_per_param

\* a persisted campaign of two trials whose baseline produced a result
C19_Witness ==
    /\ pkl # <<>>
    /\ number_of_randoms = 2
    /\ pkl[1].unperturbed_FY # <<>>
    /\ \/ Len(pkl[1].list_of_TMC_Objects) = 2
       \/ /\ pkl[1].list_of_Mod_Param_objects # <<>>
          /\ Len(pkl[1].list_of_Mod_Param_objects[1].list_of_Random_Parameter_Value_objects) = 2

\* the baseline is running while the TMC pool has every worker busy
C19_BaselineOverlapsFullPool ==
    /\ Running(UnperturbedKey)
    /\ Cardinality({n \in TrialIndexes : Running(TMCKey(n))}) = max_multithreads_TMC

\* the baseline is running while a single-parameter trial is running
C19_BaselineOverlapsParameterTrial ==
    /\ Running(UnperturbedKey)
    /\ \E p \in Parameters, n \in TrialIndexes : Running(ParamKey(p, n))

(***************************************************************************)
(* Part V.  The GEF working directories of the trials: what the three      *)
(* trial executors do to their directory before GEF is started, what GEF   *)
(* leaves there and what is removed afterwards.  Two calls run side by     *)
(* side; a directory may be there from an earlier run.                     *)
(***************************************************************************)
\* Number of times the program is run on the same GEF_working_dir_path.
MaxRuns == 2

\* GEF's default output folders (eraseFolders lines 683-690)
DefaultFolders == {"ctl", "dmp", "out", "tmp"}

\* GEF_input.create_GEF_input_file_and_folder lines 118-130
InputEntries == {"MyParameters.dat", "file.in", "in"}

\* What an earlier run can have left in a directory.
LeftoverEntries ==
    {InputEntries, InputEntries \cup {"dmp", "out"}, InputEntries \cup DefaultFolders}

\* The calls that run side by side.
WorkerSets ==
    {{UnperturbedKey, ParamKey("SIGDEFO", 0)},
     {UnperturbedKey, TMCKey(0)},
     {ParamKey("SIGDEFO", 0), ParamKey("SIGDEFO", 1)},
     {ParamKey("SIGDEFO", 0), ParamKey("SIGDEFO_0", 0)},
     {TMCKey(0), TMCKey(1)},
     {TMCKey(1), TMCKey(11)}}

\* The statements of a trial executor that touch the directory, up to the
\* start of GEF, in the order of the code: create_unperturbed_FY lines
\* 524-531, create_perturbed_FY lines 2264-2276, create_perturbed_TMC_FY
\* lines 2411-2425.
Statements(k) ==
    CASE k[1] = "Unperturbed" ->
            <<"create_GEF_workingdir_and_inputfile", "clear_MyParameters_dat",
              "eraseFolders", "Popen">>
      [] k[1] = "Param" ->
            <<"create_GEF_workingdir_and_inputfile", "eraseFolders",
              "write_MyParameters_dat", "Popen">>
      [] k[1] = "TMC" ->
            <<"create_GEF_workingdir_and_inputfile", "eraseFolders",
              "clear_MyParameters_dat", "write_MyParameters_dat", "Popen">>

\* A call at its first statement.
NewWorker(run) ==
    [run         |-> run,
     phase       |-> "setup",    \* "setup" | "gef" | "ran" | "print_ff" |
                                 \* "talys_input" | "talys" | "returned" | "raised"
     line        |-> 1,          \* position in Statements
     existed     |-> <<>>,       \* os.path.isdir of line 1099
     erased      |-> <<>>,       \* the folders eraseFolders removed
     GEF_process |-> <<>>,       \* the default folders GEF found when started
     output      |-> "none"]     \* "none" | "good" | "bad"

\* The statement a call is at.
Statement(k) ==
    IF worker[k].phase = "setup" THEN Statements(k)[worker[k].line] ELSE ""

\* The statements a call has executed in this run.
Executed(k) ==
    IF worker[k].phase = "setup"
    THEN SubSeq(Statements(k), 1, worker[k].line - 1)
    ELSE Statements(k)

isdir(d) == d \in DOMAIN GEF_working_dir

\* The files of the GEF ".ff" library that are not written by the program:
\* the library's own files for the two energies, named without an ID.
OriginalLibrary ==
    {<<e>> \o <<".", "0", "0", "e", "+", "0", "0", "M", "e", "V", "_", "g", "e", "f", ".", "f", "f">> : e \in {"6", "7"}}

\* str.endswith
endswith(s, suffix) ==
    /\ Len(suffix) <= Len(s)
    /\ SubSeq(s, Len(s) - Len(suffix) + 1, Len(s)) = suffix

\* a delete that removes every ".ff" file of the folder
delete_TALYS_ff_files_EveryFF(folder, ID) ==
    {f \in folder : ~endswith(f, <<".", "f", "f">>)}

\* delete_TALYS_ff_files lines 618-620: what is left of the folder
delete_TALYS_ff_files(folder, ID) ==
    {f \in folder : ~endswith(f, lower(ID) \o <<".", "f", "f">>)}

\* an erase that leaves the tmp folder
eraseFolders_KeepTmp(entries) == entries \ {"ctl", "dmp", "out"}

\* eraseFolders lines 683-690
eraseFolders(entries) == entries \ {"ctl", "dmp", "out", "tmp"}

WInit ==
    /\ NoReducerRun
    /\ NoCampaign
    /\ NoPerturberRun
    /\ NoLoaderRun
    /\ \E W \in WorkerSets :
         /\ worker = [k \in W |-> NewWorker(1)]
         /\ \E S \in SUBSET {GEF_cwd(k) : k \in W} :
              GEF_working_dir \in [S -> LeftoverEntries]
    /\ With_TALYS_flag \in BOOLEAN
    /\ TALYS_working_dir = {}
    /\ TALYS_ff_file_path = OriginalLibrary

\* create_GEF_workingdir_and_inputfile lines 1099-1115 with
\* GEF_input.create_GEF_input_file_and_folder
CreateWorkingDir(k) ==
    /\ Statement(k) = "create_GEF_workingdir_and_inputfile"
    /\ GEF_working_dir' =
         [d \in (DOMAIN GEF_working_dir) \cup {GEF_cwd(k)} |->
             IF d = GEF_cwd(k)
             THEN (IF isdir(d) THEN GEF_working_dir[d] ELSE {}) \cup InputEntries
             ELSE GEF_working_dir[d]]
    /\ worker' = [worker EXCEPT ![k].existed = <<isdir(GEF_cwd(k))>>, ![k].line = @ + 1]
    /\ UNCHANGED <<tvars, rvars, cvars, pvars, lvars>>

\* clear_MyParameters_dat lines 318-322: the file is emptied if it is there
ClearMyParameters(k) ==
    /\ Statement(k) = "clear_MyParameters_dat"
    /\ worker' = [worker EXCEPT ![k].line = @ + 1]
    /\ UNCHANGED <<tvars, rvars, cvars, pvars, lvars, GEF_working_dir>>

\* eraseFolders lines 683-690
EraseFolders(k) ==
    /\ Statement(k) = "eraseFolders"
    /\ LET d == GEF_cwd(k)
       IN  IF isdir(d)
           THEN /\ GEF_working_dir' = [GEF_working_dir EXCEPT ![d] = eraseFolders(@)]
                /\ worker' = [worker EXCEPT
                       ![k].erased = <<GEF_working_dir[d] \ eraseFolders(GEF_working_dir[d])>>,
                       ![k].line = @ + 1]
           ELSE /\ UNCHANGED GEF_working_dir
                /\ worker' = [worker EXCEPT ![k].erased = <<{}>>, ![k].line = @ + 1]
    /\ UNCHANGED <<tvars, rvars, cvars, pvars, lvars>>

\* lines 2271-2274 and 2419-2423: open(...'MyParameters.dat') for writing
\* raises FileNotFoundError when the directory is gone
WriteMyParameters(k) ==
    /\ Statement(k) = "write_MyParameters_dat"
    /\ LET d == GEF_cwd(k)
       IN  IF isdir(d)
           THEN /\ GEF_working_dir' = [GEF_working_dir EXCEPT ![d] = @ \cup {"MyParameters.dat"}]
                /\ worker' = [worker EXCEPT ![k].line = @ + 1]
           ELSE /\ UNCHANGED GEF_working_dir
                /\ worker' = [worker EXCEPT ![k].phase = "raised"]
    /\ UNCHANGED <<tvars, rvars, cvars, pvars, lvars>>

\* lines 531, 2276, 2425: subprocess.Popen(["GEF"], cwd=GEF_cwd_path); GEF
\* starts in the directory and looks for its folders
Popen(k) ==
    /\ Statement(k) = "Popen"
    /\ LET d == GEF_cwd(k)
       IN  IF isdir(d)
           THEN worker' = [worker EXCEPT
                    ![k].GEF_process = <<GEF_working_dir[d] \cap DefaultFolders>>,
                    ![k].phase = "gef"]
           ELSE worker' = [worker EXCEPT ![k].phase = "raised"]
    /\ UNCHANGED <<tvars, rvars, cvars, pvars, lvars, GEF_working_dir>>

\* GEF_process.communicate: GEF exits at once if it found one of its
\* folders, otherwise it writes its folders, with a usable result or not
GEFRuns(k) ==
    /\ worker[k].phase = "gef"
    /\ LET d == GEF_cwd(k)
       IN  IF worker[k].GEF_process[1] # {} \/ ~isdir(d)
           THEN /\ UNCHANGED GEF_working_dir
                /\ worker' = [worker EXCEPT ![k].phase = "ran", ![k].output = "bad"]
           ELSE /\ GEF_working_dir' = [GEF_working_dir EXCEPT ![d] = @ \cup DefaultFolders]
                /\ \E o \in {"good", "bad"} :
                     worker' = [worker EXCEPT ![k].phase = "ran", ![k].output = o]
    /\ UNCHANGED <<tvars, rvars, cvars, pvars, lvars>>

\* FY_results and read_and_clear_GEF_results: sys.exit on an unusable
\* result, otherwise delete_GEF_result_folder (lines 581-582, called at
\* line 1589) removes the directory; the call returns here unless
\* With_TALYS_flag is set (lines 536, 2281, 2429)
ReadAndClear(k) ==
    /\ worker[k].phase = "ran"
    /\ IF worker[k].output = "good"
       THEN /\ GEF_working_dir' =
                 [d \in (DOMAIN GEF_working_dir) \ {GEF_cwd(k)} |-> GEF_working_dir[d]]
            /\ worker' = [worker EXCEPT ![k].phase =
                              IF With_TALYS_flag THEN "print_ff" ELSE "returned"]
       ELSE /\ UNCHANGED GEF_working_dir
            /\ worker' = [worker EXCEPT ![k].phase = "raised"]
    /\ UNCHANGED <<tvars, rvars, cvars, pvars, lvars>>

\* print_TALYS_ff_files lines 1327-1335: the two ".ff" files of the trial
\* are written into the library folder
PrintTALYSffFiles(k) ==
    /\ worker[k].phase = "print_ff"
    /\ TALYS_ff_file_path' = TALYS_ff_file_path \cup ff_file_names(k)
    /\ worker' = [worker EXCEPT ![k].phase = "talys_input"]
    /\ UNCHANGED <<rvars, cvars, pvars, lvars, GEF_working_dir, TALYS_working_dir,
                   With_TALYS_flag>>

\* TALYS_Input.create_TALYS_input_file lines 111-114: the folder of the
\* trial is made unless it is there
CreateTALYSInputFile(k) ==
    /\ worker[k].phase = "talys_input"
    /\ TALYS_working_dir' = TALYS_working_dir \cup {TALYS_cwd(k)}
    /\ worker' = [worker EXCEPT ![k].phase = "talys"]
    /\ UNCHANGED <<rvars, cvars, pvars, lvars, GEF_working_dir, TALYS_ff_file_path,
                   With_TALYS_flag>>

\* subprocess.run in the folder of the trial and read_and_clear_TALYS_results:
\* FileNotFoundError and sys.exit when the folder is gone (lines 2290-2293,
\* 1671, 1752-1753), otherwise delete_TALYS_result_files (lines 646-647)
\* and delete_TALYS_ff_files (lines 618-620), called at lines 1757 and 1759
ReadAndClearTALYS(k) ==
    /\ worker[k].phase = "talys"
    /\ IF TALYS_cwd(k) \in TALYS_working_dir
       THEN /\ TALYS_working_dir' = TALYS_working_dir \ {TALYS_cwd(k)}
            /\ TALYS_ff_file_path' =
                   delete_TALYS_ff_files(TALYS_ff_file_path, unique_thread_ID(k))
            /\ worker' = [worker EXCEPT ![k].phase = "returned"]
       ELSE /\ UNCHANGED <<TALYS_working_dir, TALYS_ff_file_path>>
            /\ worker' = [worker EXCEPT ![k].phase = "raised"]
    /\ UNCHANGED <<rvars, cvars, pvars, lvars, GEF_working_dir, With_TALYS_flag>>

\* The program is run again on the directories the last run left.
NextRun ==
    /\ \A k \in DOMAIN worker : worker[k].phase \in {"returned", "raised"}
    /\ \E k \in DOMAIN worker : worker[k].run < MaxRuns
    /\ worker' = [k \in DOMAIN worker |-> NewWorker(worker[k].run + 1)]
    /\ UNCHANGED <<tvars, rvars, cvars, pvars, lvars, GEF_working_dir>>

WNext ==
    \/ \E k \in DOMAIN worker : CreateWorkingDir(k)
    \/ \E k \in DOMAIN worker : ClearMyParameters(k)
    \/ \E k \in DOMAIN worker : EraseFolders(k)
    \/ \E k \in DOMAIN worker : WriteMyParameters(k)
    \/ \E k \in DOMAIN worker : Popen(k)
    \/ \E k \in DOMAIN worker : GEFRuns(k)
    \/ \E k \in DOMAIN worker : ReadAndClear(k)
    \/ \E k \in DOMAIN worker : PrintTALYSffFiles(k)
    \/ \E k \in DOMAIN worker : CreateTALYSInputFile(k)
    \/ \E k \in DOMAIN worker : ReadAndClearTALYS(k)
    \/ NextRun

SpecWorkingDir == WInit /\ [][WNext]_vars

(***************************************************************************)
(* C20: leftover generator folders (SpecWorkingDir).                       *)
(***************************************************************************)
\* the position of statement s among the executed statements of k, 0 if none
PositionOf(k, s) ==
    IF \E i \in 1..Len(Executed(k)) : Executed(k)[i] = s
    THEN CHOOSE i \in 1..Len(Executed(k)) : Executed(k)[i] = s
    ELSE 0

GEFStarted(k) == worker[k].GEF_process # <<>>

\* C20: in every trial (baseline, single-parameter, TMC), also when its
\* working directory is there from a previous run, none of the folders ctl,
\* dmp, out, tmp is in the trial's working directory when GEF is started,
\* and the erase comes after the set-up of the directory and before the
\* start of GEF.
C20_FoldersClearedBeforeInvocation ==
    \A k \in DOMAIN worker :
        GEFStarted(k) =>
            /\ worker[k].GEF_process[1] = {}
            /\ worker[k].erased # <<>>
            /\ 0 < PositionOf(k, "create_GEF_workingdir_and_inputfile")
            /\ PositionOf(k, "create_GEF_workingdir_and_inputfile") < PositionOf(k, "eraseFolders")
            /\ PositionOf(k, "eraseFolders") < PositionOf(k, "Popen")

\* GEF has been started in a directory that was there before the call and
\* held all four folders
C20_Witness ==
    \E k \in DOMAIN worker :
        /\ GEFStarted(k)
        /\ worker[k].existed = <<TRUE>>
        /\ worker[k].erased = <<DefaultFolders>>

\* the same in the second run, in the directory a failed first run left
C20_WitnessSecondRun ==
    \E k \in DOMAIN worker :
        /\ GEFStarted(k)
        /\ worker[k].run = 2
        /\ worker[k].erased = <<DefaultFolders>>

(***************************************************************************)
(* C21: the yield fraction (SpecReducer).                                  *)
(***************************************************************************)
\* the fraction <<a, b>> equals n / d
FractionIs(f, n, d) == f[2] # 0 /\ d # 0 /\ f[1] * d = n * f[2]

SomeToolFailure == \E k \in DOMAIN trial : k # UnperturbedKey /\ ToolFailure(trial[k])

\* C22: once one perturbed trial has failed fatally, no perturbed trial that
\* had not yet been started is started: a call that is still queued in a
\* pool stays queued.
C22_ToolErrorsUnwind ==
    [][SomeToolFailure =>
          \A k \in DOMAIN trial :
              (k # UnperturbedKey /\ trial[k].phase = "queued") =>
                  (k \in DOMAIN trial' /\ trial'[k].phase = "queued")]_vars

\* What the code does: the main thread looks at no result before every
\* submitted call has ended, so all queued trials run after a failure.
C22_AllTrialsEndBeforeExit ==
    (pc = "exited" /\ program_flag = "TMC" /\ dist_flag \in TMCDistributions) =>
        \A n \in TMCIndexes : Terminal(TMCKey(n))


(***************************************************************************)
(* C23: no trial result ends up in the group of another parameter (Spec).  *)
(***************************************************************************)
\* The trial list of the group of parameter p holds results of p only, one
\* for each index of p's list of random numbers.
OwnTrialsOnly(p, entries) ==
    /\ Len(entries) = Cardinality(RandNumIndexes)
    /\ \A j \in 1..Len(entries) : entries[j].param_name = p
    /\ \A n \in RandNumIndexes :
           Cardinality({j \in 1..Len(entries) :
                           entries[j].enumeration_rand_num = n}) = 1

\* the groups stored in a Reaction object
StoredGroupsOwnTrialsOnly(obj) ==
    \A i \in 1..Len(obj.list_of_Mod_Param_objects) :
        OwnTrialsOnly(obj.list_of_Mod_Param_objects[i].param_name,
                      obj.list_of_Mod_Param_objects[i]
                          .list_of_Random_Parameter_Value_objects)

\* C23: in parameter-at-a-time mode a Parameter Group that has been returned
\* to the campaign has no trial of its inner pool still queued or running,
\* every result in its trial list carries the group's own param_name, and
\* every trial index appears in the list exactly once; the same holds for
\* the groups the campaign has stored and persisted, under every
\* interleaving of the trials of different parameters.
C23_NoCrossParameterContamination ==
    program_flag = "Single_Parameters" =>
        /\ \A p \in DOMAIN parameter_task :
               parameter_task[p].state = "returned" =>
                   /\ \A n \in TrialIndexes :
                          <<"Param", p, n>> \in DOMAIN trial =>
                              trial[<<"Param", p, n>>].phase \in {"returned", "raised"}
                   /\ OwnTrialsOnly(p, parameter_task[p]
                                           .list_of_Random_Parameter_Value_objects)
        /\ StoredGroupsOwnTrialsOnly(reaction)
        /\ \A i \in 1..Len(pkl) : StoredGroupsOwnTrialsOnly(pkl[i])

\* One parameter's group has been returned with both of its trials while a
\* trial of the other parameter, started in between, is still running.
C23_Witness ==
    /\ program_flag = "Single_Parameters"
    /\ \E p, q \in DOMAIN parameter_task :
           /\ p # q
           /\ parameter_task[p].state = "returned"
           /\ Len(parameter_task[p].list_of_Random_Parameter_Value_objects) = 2
           /\ parameter_task[q].state = "running"
           /\ \E n \in TrialIndexes :
                  /\ <<"Param", q, n>> \in DOMAIN trial
                  /\ trial[<<"Param", q, n>>].phase = "returned"
           /\ \E n \in TrialIndexes :
                  /\ <<"Param", q, n>> \in DOMAIN trial
                  /\ trial[<<"Param", q, n>>].phase \in {"gef", "talys"}

(***************************************************************************)
(* C24: what the clean-up of a trial removes (SpecWorkingDir).             *)
(***************************************************************************)
\* the call has made its GEF directory and has not yet removed it
HoldsGEFDirectory(k) ==
    \/ worker[k].phase = "setup" /\ worker[k].line > 1
    \/ worker[k].phase \in {"gef", "ran"}

\* the call has written its two ".ff" files and has not yet removed them
HoldsFFFiles(k) == worker[k].phase \in {"talys_input", "talys"}

\* C24: after a trial has returned its GEF working directory is gone and,
\* with the TALYS stage enabled, so are its TALYS folder and its two ".ff"
\* files; the working directory, the TALYS folder and the ".ff" files of a
\* trial that is still running, and the GEF directory of a trial that has
\* failed, are still there whatever the other trial has removed; the
\* library's own ".ff" files are never removed.
C24_CleanupRemovesOwnArtifacts ==
    /\ OriginalLibrary \subseteq TALYS_ff_file_path
    /\ \A k \in DOMAIN worker :
         /\ worker[k].phase = "returned" =>
                /\ ~isdir(GEF_cwd(k))
                /\ With_TALYS_flag =>
                       /\ TALYS_cwd(k) \notin TALYS_working_dir
                       /\ ff_file_names(k) \cap TALYS_ff_file_path = {}
         /\ HoldsGEFDirectory(k) => isdir(GEF_cwd(k))
         /\ worker[k].phase = "raised" => isdir(GEF_cwd(k))
         /\ HoldsFFFiles(k) => ff_file_names(k) \subseteq TALYS_ff_file_path
         /\ worker[k].phase = "talys" => TALYS_cwd(k) \in TALYS_working_dir

\* Trial 0 of SIGDEFO has returned and cleaned up while trial 0 of
\* SIGDEFO_0, whose ID ends like its own, has its TALYS folder and files.
C24_Witness ==
    /\ With_TALYS_flag
    /\ DOMAIN worker = {ParamKey("SIGDEFO", 0), ParamKey("SIGDEFO_0", 0)}
    /\ worker[ParamKey("SIGDEFO", 0)].phase = "returned"
    /\ worker[ParamKey("SIGDEFO_0", 0)].phase = "talys"

\* TMC trial 1 has returned while TMC trial 11 has its files
C24_WitnessTMC ==
    /\ With_TALYS_flag
    /\ DOMAIN worker = {TMCKey(1), TMCKey(11)}
    /\ worker[TMCKey(1)].phase = "returned"
    /\ worker[TMCKey(11)].phase = "talys"
    /\ ff_file_names(TMCKey(11)) \subseteq TALYS_ff_file_path

(***************************************************************************)
(* Part I, continued: the FY_TALYS array as GEF_FY_for_TALYS fills it,     *)
(* column by column, with all of its TableRows rows.                       *)
(***************************************************************************)
\* a row of np.zeros((300,11)); the float columns as fractions
ZeroRow == <<0, 0, 0, 0, <<0, 1>>, <<0, 1>>, <<0, 1>>, <<0, 1>>, <<0, 1>>, <<0, 1>>, <<0, 1>>>>

\* lines 1000 and 1002: index_unique (return_index=True, the first row that
\* shows the key) at the positions of the keys occurring more than once
index_to_pick(tab) ==
    LET uy == unique_yields(tab)
        ie == index_event_occur_more_than_once(tab)
    IN  [m \in 1..Len(ie) |->
            CHOOSE i \in RowsOfKey(tab, uy[ie[m]]) :
                \A j \in RowsOfKey(tab, uy[ie[m]]) : i <= j]

\* the m-th retained key written to the row of its position in unique_yields
SummaryPosition_UniquePosition(ie, m) == ie[m]

\* slice(len(index_to_pick)) of lines 1004-1011 and enumerate of line 1013:
\* the row of FY_TALYS the m-th retained key is written to
SummaryPosition(ie, m) == m

\* lines 982-1030: the array after the slice assignments and the loop
FY_TALYS_array(tab, A, num_of_events) ==
    LET swapped == SwapRows(MultichanceFilter(tab, A))
        uy      == unique_yields(swapped)
        uc      == unique_counts(swapped)
        ie      == index_event_occur_more_than_once(swapped)
        itp     == index_to_pick(swapped)
        denom   == YieldDenominator(swapped, num_of_events, ignored_events_of(swapped))
    IN  [i \in 1..TableRows |->
            IF \E m \in 1..Len(ie) : SummaryPosition(ie, m) = i
            THEN LET m   == CHOOSE n \in 1..Len(ie) : SummaryPosition(ie, n) = i
                     ind == RowsOfKey(swapped, uy[ie[m]])
                 IN  << swapped[itp[m]][1], swapped[itp[m]][2],
                        swapped[itp[m]][3], swapped[itp[m]][4],
                        <<uc[ie[m]], denom>>,
                        np_mean(swapped, ind, 5),
                        <<SumIdx(swapped, ind, 6) + SumIdx(swapped, ind, 7), Cardinality(ind)>>,
                        np_mean(swapped, ind, 6),
                        np_std(swapped, ind, 6),
                        np_mean(swapped, ind, 7),
                        np_std(swapped, ind, 7) >>
            ELSE ZeroRow]

\* print_TALYS_ff_files line 1300: len(np.nonzero(FY_TALYS_format[:,0])[0])
number_of_FY(array) == Cardinality({i \in 1..Len(array) : array[i][1] # 0})

(***************************************************************************)
(* C25: the layout of the summary table (SpecReducer).                     *)
(***************************************************************************)
\* the keys of the raw table that occur more than once
RetainedSplits == {k \in CountedSplits : Occurrences(k) > 1}

C25_WitnessTwoKeys ==
    /\ Called
    /\ result1.status = "ok"
    /\ Len(result1.FY_TALYS) = 2
    /\ result1.ignored_events = 1
    /\ number_of_FY(FY_TALYS_array(PopulateFY(lmdData), A_compound, Len(lmdData))) = 2

(***************************************************************************)
(* C26: more retained keys than the summary table has rows (SpecReducer).  *)
(***************************************************************************)
\* C26: a raw table with more retained keys than the 300 rows of the
\* summary table makes the reducer fail with an error and return no
\* summary; a summary that is returned has one row for every retained key,
\* none dropped and none overwritten.
C26_OverflowNeverSilent ==
    Called =>
        /\ Cardinality(RetainedSplits) > TableRows =>
               /\ result1.status = "ValueError"
               /\ result1.FY_TALYS = <<>>
        /\ result1.status = "ok" =>
               /\ Len(result1.FY_TALYS) = Cardinality(RetainedSplits)
               /\ {Key(result1.FY_TALYS[j]) : j \in 1..Len(result1.FY_TALYS)}
                      = RetainedSplits

\* the table with 301 retained keys has been handed to the reducer
C26_Witness ==
    /\ Called
    /\ Cardinality(RetainedSplits) = TableRows + 1
    /\ result1.status = "ValueError"

\* the table with exactly 300 retained keys is reduced to a full summary
C26_WitnessFull ==
    /\ Called
    /\ Cardinality(RetainedSplits) = TableRows
    /\ result1.status = "ok"
    /\ Len(result1.FY_TALYS) = TableRows

(***************************************************************************)
(* C27: the order of filter and canonicalization (SpecReducer).            *)
(***************************************************************************)
\* The reducer with the two steps of lines 988-998 exchanged: the rows are
\* put lighter fragment first, then the multi-chance rows are deleted.
SummaryCanonicalizeFirst(tab, A, num_of_events) ==
    LET swapped == MultichanceFilter(SwapRows(tab), A)
        kept    == RetainedKeys(swapped)
        ignored == ignored_events_of(swapped)
        denom   == YieldDenominator(swapped, num_of_events, ignored)
    IN  IF Len(kept) > TableRows THEN <<"ValueError", <<>>, 0>>
        ELSE IF Len(kept) = 0 THEN <<"UnboundLocalError", <<>>, 0>>
        ELSE <<"ok", [j \in 1..Len(kept) |-> SummaryRow(swapped, kept[j], denom)], ignored>>

\* C27: for every raw table, deleting the multi-chance rows before putting
\* the fragments in order (the code's order) and deleting them afterwards
\* leave the same rows, and give the same outcome: the same summary table
\* and the same number of ignored single events.
C27_FilterOrderIndependent ==
    rpc = "called1" =>
        /\ SwapRows(MultichanceFilter(PopulateFY(lmdData), A_compound))
             = MultichanceFilter(SwapRows(PopulateFY(lmdData)), A_compound)
        /\ Outcome(result1)
             = SummaryCanonicalizeFirst(PopulateFY(lmdData), A_compound, Len(lmdData))

\* A reduced table with a multi-chance row and a retained row that both
\* list the heavier fragment first.
C27_Witness ==
    /\ rpc = "called1"
    /\ result1.status = "ok"
    /\ \E i, j \in 1..Len(lmdData) :
           /\ lmdData[i][3] > lmdData[i][4]
           /\ ~PassesMassCheck(lmdData[i])
           /\ lmdData[j][3] > lmdData[j][4]
           /\ PassesMassCheck(lmdData[j])
           /\ Occurrences(LightFirst(lmdData[j])) > 1

(***************************************************************************)
(* C28: events with fragments of equal mass (SpecReducer).                 *)
(***************************************************************************)
\* the rows r and q of FY show the same two fragments (Z, A), in any order
SameFragments(r, q) ==
    {<<r[1], r[2]>>, <<r[3], r[4]>>} = {<<q[1], q[2]>>, <<q[3], q[4]>>}

\* the rows the keys are taken from (FY after lines 988-998)
Canonicalized == SwapRows(MultichanceFilter(PopulateFY(lmdData), A_compound))

\* every two rows of tab that show the same two fragments have the same key
MirrorRowsShareKey(tab) ==
    \A i, j \in 1..Len(tab) :
        SameFragments(tab[i], tab[j]) => Key(tab[i]) = Key(tab[j])

\* C28: two events that consist of the same unordered pair of fragments
\* have the same key after canonicalization, also when the two fragments
\* have the same mass number, different charge numbers and are listed in
\* opposite order.
C28_MirrorEventsShareKey ==
    rpc = "called1" => MirrorRowsShareKey(Canonicalized)

\* rows with fragments of different mass numbers
UnequalMass(r) == r[2] # r[4]

\* the same for the events whose fragments differ in mass number
C28_MirrorEventsOfUnequalMassShareKey ==
    rpc = "called1" => MirrorRowsShareKey(SelectSeq(Canonicalized, UnequalMass))

\* some two rows of tab show the same fragments under two keys that each
\* occur once only
MirrorPairOfSingles(tab) ==
    \E i, j \in 1..Len(tab) :
        /\ i # j
        /\ SameFragments(tab[i], tab[j])
        /\ Key(tab[i]) # Key(tab[j])
        /\ \A m \in 1..Len(tab) :
               (m # i /\ m # j) =>
                   (Key(tab[m]) # Key(tab[i]) /\ Key(tab[m]) # Key(tab[j]))

\* two events of equal fragment masses in opposite order are both dropped as
\* single events, although the pair of fragments occurred twice
C28_MirrorPairDroppedAsSingles ==
    /\ rpc = "called1"
    /\ Len(lmdData) <= MaxEvents
    /\ MirrorPairOfSingles(Canonicalized)

(***************************************************************************)
(* C29: the energies of swapped fragments (SpecReducer).                   *)
(***************************************************************************)
\* Excitation energy of the fragment of raw row r that is labelled light
\* after canonicalization, and of the one labelled heavy.
LightEnergy(r) == IF r[3] > r[4] THEN r[6] ELSE r[5]

HeavyEnergy(r) == IF r[3] > r[4] THEN r[5] ELSE r[6]

\* the raw rows counted under key k
EventsOf(k) ==
    {i : i \in {j \in 1..Len(lmdData) :
                   PassesMassCheck(lmdData[j]) /\ LightFirst(lmdData[j]) = k}}

RECURSIVE SumLight(_)
SumLight(S) ==
    IF S = {} THEN 0
    ELSE LET i == CHOOSE j \in S : TRUE
         IN  LightEnergy(lmdData[i]) + SumLight(S \ {i})

RECURSIVE SumHeavy(_)
SumHeavy(S) ==
    IF S = {} THEN 0
    ELSE LET i == CHOOSE j \in S : TRUE
         IN  HeavyEnergy(lmdData[i]) + SumHeavy(S \ {i})

\* C29: in every row of the summary the mean excitation energy of the light
\* fragment is the mean, over the events of the key, of the energy of the
\* fragment that is labelled light after canonicalization, and likewise for
\* the heavy fragment: the energies of a swapped event are swapped with its
\* (Z, A) pairs.
C29_EnergiesFollowFragment ==
    (rpc = "called1" /\ result1.status = "ok") =>
        \A j \in 1..Len(result1.FY_TALYS) :
            LET row == result1.FY_TALYS[j]
                ev  == EventsOf(Key(row))
            IN  /\ row[8]  = <<SumLight(ev), Cardinality(ev)>>
                /\ row[10] = <<SumHeavy(ev), Cardinality(ev)>>

\* the same for the keys none of whose events was swapped
C29_EnergiesOfUnswappedEvents ==
    (rpc = "called1" /\ result1.status = "ok") =>
        \A j \in 1..Len(result1.FY_TALYS) :
            LET row == result1.FY_TALYS[j]
                ev  == EventsOf(Key(row))
            IN  (\A i \in ev : lmdData[i][3] <= lmdData[i][4]) =>
                    /\ row[8]  = <<SumLight(ev), Cardinality(ev)>>
                    /\ row[10] = <<SumHeavy(ev), Cardinality(ev)>>

\* the total excitation energy of a key is the same either way
C29_TotalExcitationUnaffected ==
    (rpc = "called1" /\ result1.status = "ok") =>
        \A j \in 1..Len(result1.FY_TALYS) :
            LET row == result1.FY_TALYS[j]
                ev  == EventsOf(Key(row))
            IN  row[7] = <<SumLight(ev) + SumHeavy(ev), Cardinality(ev)>>

(***************************************************************************)
(* C30: the distributions the two modes accept (Spec).                     *)
(***************************************************************************)
\* no call and no task of the campaign has ended on an unknown distribution
NoDistributionRejected ==
    /\ \A k \in DOMAIN trial : trial[k].exc # "SystemExit_distribution"
    /\ \A p \in DOMAIN parameter_task :
           parameter_task[p].exc # "SystemExit_distribution"

\* every TMC trial that has started GEF has one perturbed value per parameter
OnePerturbedValuePerParameter ==
    \A k \in DOMAIN trial :
        (k[1] = "TMC" /\ trial[k].phase \in {"gef", "talys", "returned"}) =>
            /\ Len(trial[k].list_of_TMC_Mod_Param_objects)
                   = Len(dict_unpert_param_name_val)
            /\ \A j \in 1..Len(dict_unpert_param_name_val) :
                   trial[k].list_of_TMC_Mod_Param_objects[j].param_name
                       = dict_unpert_param_name_val[j]

\* C30: every distribution that parameter-at-a-time mode accepts (uniform,
\* normal, max-min) is accepted by TMC mode too, where it gives one
\* perturbed value per parameter; none is rejected as unknown in one mode
\* only.
C30_DistributionsAcceptedInBothModes ==
    dist_flag \in {"uniform", "normal", "max-min"} =>
        /\ NoDistributionRejected
        /\ OnePerturbedValuePerParameter

\* the same for uniform and normal only
C30_UniformAndNormalAcceptedInBothModes ==
    dist_flag \in {"uniform", "normal"} =>
        /\ NoDistributionRejected
        /\ OnePerturbedValuePerParameter

\* parameter-at-a-time mode never rejects max-min
C30_MaxMinAcceptedBySingleParameters ==
    (program_flag = "Single_Parameters" /\ dist_flag = "max-min") =>
        NoDistributionRejected

\* a parameter-at-a-time campaign with max-min has returned a group with
\* its two trials
C30_MaxMinSingleCompletes ==
    /\ program_flag = "Single_Parameters"
    /\ dist_flag = "max-min"
    /\ \E p \in DOMAIN parameter_task :
           /\ parameter_task[p].state = "returned"
           /\ Len(parameter_task[p].list_of_Random_Parameter_Value_objects) = 2

\* a TMC campaign with max-min has exited on the distribution
C30_MaxMinRejectedByTMC ==
    /\ program_flag = "TMC"
    /\ dist_flag = "max-min"
    /\ pc = "exited"
    /\ \E k \in DOMAIN trial : trial[k].exc = "SystemExit_distribution"
====
